---- MODULE Spec2Model ----
(***************************************************************************)
(* Model of priv/python/analyzer.py: the structure / loop-point /          *)
(* arrangement / auto-cue pipeline of analyze_audio.                       *)
(*                                                                         *)
(* Numbers.  Times are fixed-point integers counted in ticks, TicksPerMs   *)
(* ticks to the millisecond, so that int(t * 1000) is a real truncation.   *)
(* Scores, confidences, intensities and normalised energies (floats in     *)
(* [0,1] that the code rounds to 4 decimals) are integers counted in       *)
(* 1/10000, so 0.6 is 6000 and 1.0 is One.                                 *)
(***************************************************************************)
EXTENDS Integers, Sequences, FiniteSets, TLC

VARIABLES pc, features, wave, tempo_data, structure_data, results,
          tempo_calls, structure_calls, call, ret

vars == <<pc, features, wave, tempo_data, structure_data, results,
          tempo_calls, structure_calls, call, ret>>

----------------------------------------------------------------------------
(* Units *)

TicksPerMs == 2
Ms == TicksPerMs
Sec == 1000 * Ms
HalfSec == 500 * Ms
One == 10000

(* Bounds of the checked instances *)
MaxBeats == 9
MaxMarkers == 3
NovLen == 3
MaxBars == 5

----------------------------------------------------------------------------
(* Sequence helpers (numpy / list primitives) *)

Range(s) == {s[i] : i \in DOMAIN s}

Last(s) == s[Len(s)]

Min2(a, b) == IF a <= b THEN a ELSE b

Max2(a, b) == IF a >= b THEN a ELSE b

SetMin(S) == CHOOSE x \in S : \A z \in S : x <= z

SetMax(S) == CHOOSE x \in S : \A z \in S : x >= z

RECURSIVE SortedSeq(_)
(* np.unique / sorted(set(...)): the ascending sequence of the distinct
   members of a finite set of integers *)
SortedSeq(S) ==
    IF S = {} THEN <<>>
    ELSE LET m == SetMin(S) IN <<m>> \o SortedSeq(S \ {m})

RECURSIVE SumSeq(_)
SumSeq(s) == IF s = <<>> THEN 0 ELSE Head(s) + SumSeq(Tail(s))

(* np.diff *)
Diff(s) == [i \in 1..(Len(s) - 1) |-> s[i + 1] - s[i]]

StrictlyIncreasing(s) == \A i \in 1..(Len(s) - 1) : s[i] < s[i + 1]

(* floor(n * One / d) for n >= 0, d > 0, by long division so that no
   intermediate product leaves 32 bits *)
RECURSIVE LongDiv(_, _, _)
LongDiv(r, d, digits) ==
    IF digits = 0 THEN 0
    ELSE ((r * 10) \div d) * (10 ^ (digits - 1))
         + LongDiv((r * 10) % d, d, digits - 1)

ScaledRatio(n, d) == (n \div d) * One + LongDiv(n % d, d, 4)

----------------------------------------------------------------------------
(* compute_bar_grid, analyzer.py 215-236 *)

(* beat_times[::beats_per_bar] *)
EveryNth(beats, n) ==
    [k \in 1..((Len(beats) + n - 1) \div n) |-> beats[(k - 1) * n + 1]]

compute_bar_grid_noextrap(beats, bpb) ==
    IF Len(beats) < 2 THEN beats ELSE EveryNth(beats, bpb)

compute_bar_grid_firstbar(beats, bpb) ==
    IF Len(beats) < 2 THEN beats
    ELSE LET bars == EveryNth(beats, bpb) IN
         IF Len(bars) >= 2
         THEN Append(bars, bars[Len(bars)] + (bars[2] - bars[1]))
         ELSE Append(bars, bars[1] + (SumSeq(Diff(beats)) * bpb) \div (Len(beats) - 1))

compute_bar_grid_backward(beats, bpb) ==
    IF Len(beats) < 2 THEN beats
    ELSE LET bars == EveryNth(beats, bpb) IN
         IF Len(bars) >= 2
         THEN Append(bars, bars[Len(bars)] + (bars[Len(bars) - 1] - bars[Len(bars)]))
         ELSE Append(bars, bars[1] - (SumSeq(Diff(beats)) * bpb) \div (Len(beats) - 1))

compute_bar_grid(beats, bpb) ==
    IF Len(beats) < 2 THEN beats
    ELSE LET bars == EveryNth(beats, bpb) IN
         IF Len(bars) >= 2
         THEN LET bar_dur == bars[Len(bars)] - bars[Len(bars) - 1]
              IN  Append(bars, bars[Len(bars)] + bar_dur)
         ELSE \* len(bar_times) == 1: mean beat interval times beats_per_bar
              LET d == Diff(beats)
                  avg_times_bpb == (SumSeq(d) * bpb) \div Len(d)
              IN  Append(bars, bars[1] + avg_times_bpb)

----------------------------------------------------------------------------
(* _detect_time_signature, analyzer.py 239-266 *)

(* np.correlate(x, x, mode='full')[mid + lag] *)
AutoCorr(x, lag) ==
    SumSeq([i \in 1..(Len(x) - lag) |-> x[i] * x[i + lag]])

DefaultTimeSignature == [beats_per_bar |-> 4, confidence |-> One \div 2]

(* 255-266, over the intervals between the beats *)
TimeSignatureEstimate_nomargin(intervals) ==
    LET n0 == AutoCorr(intervals, 0)
        n3 == AutoCorr(intervals, 3)
        n4 == AutoCorr(intervals, 4)
    IN  IF n3 > n4
        THEN [beats_per_bar |-> 3,
              confidence |-> Min2(One, IF n0 > 0 THEN ScaledRatio(n3, n0) ELSE n3 * One)]
        ELSE [beats_per_bar |-> 4,
              confidence |-> Min2(One, IF n0 > 0 THEN ScaledRatio(n4, n0) ELSE n4 * One)]

TimeSignatureEstimate(intervals) ==
    LET n0 == AutoCorr(intervals, 0)
        n3 == AutoCorr(intervals, 3)
        n4 == AutoCorr(intervals, 4)
        ac3 == IF n0 > 0 THEN ScaledRatio(n3, n0) ELSE n3 * One
        ac4 == IF n0 > 0 THEN ScaledRatio(n4, n0) ELSE n4 * One
    IN  \* ac3 > ac4 * 1.15, both over the same positive ac0
        IF n3 * 20 > n4 * 23
        THEN [beats_per_bar |-> 3, confidence |-> Min2(One, ac3)]
        ELSE [beats_per_bar |-> 4, confidence |-> Min2(One, ac4)]

detect_time_signature_oneguard(beats) ==
    IF Len(beats) < 6 THEN DefaultTimeSignature
    ELSE TimeSignatureEstimate(Diff(beats))

detect_time_signature(beats) ==
    IF Len(beats) < 6 THEN DefaultTimeSignature
    ELSE LET intervals == Diff(beats) IN
         IF Len(intervals) < 6 THEN DefaultTimeSignature
         ELSE TimeSignatureEstimate(intervals)

----------------------------------------------------------------------------
(* The waveform (y, sr) and the external primitives computed from it.      *)
(* A wave is a record; every library call of the code is an operator of    *)
(* the wave and of the call's arguments, so a call repeated on the same    *)
(* wave returns the same value.                                            *)
(*   dur      librosa.get_duration(y, sr), in ticks                        *)
(*   hop      4096 / sr, the time of one chroma frame, in ticks            *)
(*   beats    librosa.beat.beat_track + frames_to_time                     *)
(*   scipy    HAS_SCIPY                                                    *)
(*   nov_err  the novelty computation raises                               *)
(*   novelty  the smoothed novelty curve: its heights at the frames        *)
(*            nov_off + 1, nov_off + 2, ...; 0 at every other frame        *)
(*   agglo    librosa.segment.agglomerative: "raise", or where it cuts     *)
(*   rms      RMS level of the audio in each of NSlots equal time slots    *)
(*   chroma   mean chroma vector of the audio in each slot                 *)
(*   centroid spectral centroid of the audio in each slot                  *)
(*   detected the markers the four arrangement detectors find              *)

NSlots == 3

Slot(w, t) == Max2(1, Min2(NSlots, 1 + (t * NSlots) \div w.dur))

(* chroma.shape[1] for hop_length = 4096: 1 + len(y) // 4096 *)
NFrames(w) == 1 + w.dur \div w.hop

(* librosa.frames_to_time(frames, sr, hop_length = 4096) *)
frames_to_time(w, frames) == [i \in DOMAIN frames |-> frames[i] * w.hop]

----------------------------------------------------------------------------
(* classify_segments, analyzer.py 280-392 *)

Dot(a, b) == SumSeq([k \in DOMAIN a |-> a[k] * b[k]])

NormSq(a) == Dot(a, a)

(* _compute_segment_energy, 269-277 *)
compute_segment_energy(w, start, end) ==
    IF Min2(end, w.dur) <= start THEN 0 ELSE w.rms[Slot(w, start)]

ZeroChroma == [k \in 1..12 |-> 0]

(* 316-322: chroma centroid of a segment; zeros under a quarter second *)
SegChroma(w, start, end) ==
    IF Min2(end, w.dur) - start < Sec \div 4 THEN ZeroChroma
    ELSE w.chroma[Slot(w, start)]

(* cos_sim > 0.85 for non-negative vectors of non-zero norm:
   dot / (ni * nj) > 17/20  <=>  400 dot^2 > 289 ni^2 nj^2 *)
CosAbove85(a, b) == 400 * Dot(a, b) * Dot(a, b) > 289 * NormSq(a) * NormSq(b)

SeedGroup_alone(groups, chromas, i, g) == [groups EXCEPT ![i] = g]

(* one pass of the outer loop at 328-345 for seed i *)
SeedGroup(groups, chromas, i, g) ==
    IF NormSq(chromas[i]) = 0
    THEN [groups EXCEPT ![i] = g]
    ELSE [j \in DOMAIN groups |->
            IF j = i THEN g
            ELSE IF j > i /\ groups[j] < 0 /\ NormSq(chromas[j]) # 0
                    /\ CosAbove85(chromas[i], chromas[j])
                 THEN g
                 ELSE groups[j]]

RECURSIVE GreedyGroups(_, _, _, _)
GreedyGroups(groups, chromas, i, next_group) ==
    IF i > Len(groups) THEN groups
    ELSE IF groups[i] >= 0
         THEN GreedyGroups(groups, chromas, i + 1, next_group)
         ELSE GreedyGroups(SeedGroup(groups, chromas, i, next_group),
                           chromas, i + 1, next_group + 1)

RepetitionGroups(chromas) ==
    GreedyGroups([i \in DOMAIN chromas |-> -1], chromas, 1, 0)

GroupCount(groups, g) == Cardinality({j \in DOMAIN groups : groups[j] = g})

SectionType_energyfirst(i, n_seg, energies, max_energy, count) ==
    LET e == energies[i] IN
    IF e * 100 < 40 * max_energy THEN "verse"
    ELSE IF i = 1 THEN "intro"
    ELSE IF i = n_seg THEN "outro"
    ELSE "chorus"

(* 355-377; energies compared as fractions of max_energy.  i is 1-based. *)
SectionType(i, n_seg, energies, max_energy, count) ==
    LET e == energies[i] IN
    IF i = 1 THEN "intro"
    ELSE IF i = n_seg THEN "outro"
    ELSE IF count >= 2 /\ e * 100 > 65 * max_energy THEN "chorus"
    ELSE IF count >= 2 /\ e * 100 > 80 * max_energy THEN "drop"
    ELSE IF e * 100 < 40 * max_energy THEN "verse"
    ELSE IF e * 100 <= 55 * max_energy THEN "bridge"
    ELSE IF e * 100 <= 65 * max_energy THEN "pre_chorus"
    ELSE IF energies[i] * 10 > energies[i - 1] * 13 THEN "build_up"
    ELSE IF energies[i] * 10 < energies[i - 1] * 7 THEN "breakdown"
    ELSE "verse"

classify_segments(w, boundaries) ==
    LET n_seg == Len(boundaries) - 1 IN
    IF n_seg <= 0 THEN <<>>
    ELSE
    LET energies == [i \in 1..n_seg |->
                        compute_segment_energy(w, boundaries[i], boundaries[i + 1])]
        max0 == SetMax(Range(energies))
        max_energy == IF max0 = 0 THEN 1 ELSE max0
        chromas == [i \in 1..n_seg |-> SegChroma(w, boundaries[i], boundaries[i + 1])]
        groups == RepetitionGroups(chromas)
        counts == [i \in 1..n_seg |-> GroupCount(groups, groups[i])]
        max_count == SetMax(Range(counts))
    IN  [i \in 1..n_seg |->
           LET e_norm == ScaledRatio(energies[i], max_energy)
               stype == SectionType(i, n_seg, energies, max_energy, counts[i])
           IN  [section_type |-> stype,
                start_time |-> boundaries[i],
                end_time |-> boundaries[i + 1],
                confidence |-> Min2(One, One \div 2
                                         + (3000 * counts[i]) \div max_count
                                         + e_norm \div 5),
                label |-> <<stype, i>>,
                energy_profile |-> e_norm,
                repetition_group |-> groups[i]]]

----------------------------------------------------------------------------
(* extract_structure, analyzer.py 395-527 *)

(* the smoothed novelty curve (464) at frame idx, 0-based *)
NoveltyAt(w, idx) ==
    LET k == idx - w.nov_off IN
    IF k \in DOMAIN w.novelty /\ idx <= NFrames(w) - 1 THEN w.novelty[k] ELSE 0

(* novelty[idx] > mean + 0.5 * std over the n frames of the curve:
   with S the sum and Q the sum of squares,
   n x - S > 0.5 sqrt(n Q - S^2) *)
AboveThreshold(w, x) ==
    LET n == NFrames(w)
        on == [k \in DOMAIN w.novelty |->
                  IF k + w.nov_off <= n - 1 THEN w.novelty[k] ELSE 0]
        S == SumSeq(on)
        Q == SumSeq([k \in DOMAIN on |-> on[k] * on[k]])
    IN  n * x - S > 0 /\ 4 * (n * x - S) * (n * x - S) > n * Q - S * S

(* 467-470 *)
NoveltyPeaks(w) ==
    SortedSeq({idx \in 1..(NFrames(w) - 2) :
                  /\ NoveltyAt(w, idx) > NoveltyAt(w, idx - 1)
                  /\ NoveltyAt(w, idx) > NoveltyAt(w, idx + 1)
                  /\ AboveThreshold(w, NoveltyAt(w, idx))})

NoveltyBoundaries_onepeak(w) ==
    IF ~w.scipy \/ w.nov_err THEN <<>>
    ELSE IF Len(NoveltyPeaks(w)) >= 1
         THEN <<0>> \o NoveltyPeaks(w) \o <<NFrames(w) - 1>>
         ELSE <<>>

(* 444-474; <<>> stands for boundaries_frames = None *)
NoveltyBoundaries(w) ==
    IF ~w.scipy \/ w.nov_err THEN <<>>
    ELSE LET peaks == NoveltyPeaks(w) IN
         IF Len(peaks) >= 2
         THEN <<0>> \o peaks \o <<NFrames(w) - 1>>
         ELSE <<>>

(* 479: max(3, min(10, int(duration / 30))) *)
NClusters(w) == Max2(3, Min2(10, w.dur \div (30 * Sec)))

(* 495: max(3, min(8, int(duration / 30))) *)
NUniform(w) == Max2(3, Min2(8, w.dur \div (30 * Sec)))

(* librosa.segment.agglomerative(chroma, k): the k left boundaries of the
   segments it finds, frame 0 first; it raises when there are fewer than k
   frames *)
AggloRaises(w) == w.agglo = "raise" \/ NFrames(w) < NClusters(w)

Agglomerative(w) ==
    LET k == NClusters(w)
        n == NFrames(w)
    IN  CASE w.agglo = "early" -> [i \in 1..k |-> i - 1]
          [] w.agglo = "late" -> [i \in 1..k |-> IF i = 1 THEN 0 ELSE n - k + i - 1]
          [] OTHER -> [i \in 1..k |-> (i - 1) * (n \div k)]

(* 484-489: change points of a per-frame label array *)
ChangePoints(labels, n) ==
    <<0>> \o SortedSeq({idx \in 1..(Len(labels) - 1) : labels[idx + 1] # labels[idx]})
          \o <<n - 1>>

(* 476-496 *)
FallbackBoundaries(w) ==
    IF AggloRaises(w)
    THEN \* np.linspace(0, n - 1, n_segs + 1, dtype = int)
         [i \in 1..(NUniform(w) + 1) |->
             ((i - 1) * (NFrames(w) - 1)) \div NUniform(w)]
    ELSE LET b == Agglomerative(w) IN
         IF Len(b) = NFrames(w)
         THEN ChangePoints(b, NFrames(w))
         ELSE <<0>> \o b \o <<NFrames(w) - 1>>

BoundaryFrames(w) ==
    IF NoveltyBoundaries(w) # <<>> THEN NoveltyBoundaries(w)
    ELSE FallbackBoundaries(w)

(* 502-505 *)
ForceStart(times) ==
    IF times[1] > HalfSec THEN <<0>> \o times ELSE [times EXCEPT ![1] = 0]

(* 506-509 *)
ForceEnd_noforce(times, dur) == times

ForceEnd(times, dur) ==
    IF Last(times) < dur - HalfSec
    THEN Append(times, dur)
    ELSE [times EXCEPT ![Len(times)] = dur]

(* 499-512 *)
BoundaryTimes_nounique(w) ==
    ForceEnd(ForceStart(frames_to_time(w, BoundaryFrames(w))), w.dur)

BoundaryTimes(w) ==
    SortedSeq(Range(ForceEnd(ForceStart(frames_to_time(w, BoundaryFrames(w))), w.dur)))

ShortTrack_both(w, beats) == w.dur < 30 * Sec /\ Len(beats) < 4

(* 413 *)
ShortTrack(w, beats) == w.dur < 30 * Sec \/ Len(beats) < 4

(* 416-424 *)
SingleSegment(w) ==
    [section_type |-> "intro",
     start_time |-> 0,
     end_time |-> w.dur,
     confidence |-> One \div 2,
     label |-> <<"intro", 1>>,
     energy_profile |-> One,
     repetition_group |-> 0]

(* the returned dict; path, in the place of analysis_version, records
   which branch produced the boundaries *)
extract_structure(w, beats) ==
    LET ts == detect_time_signature(beats)
        bar_times == compute_bar_grid(beats, ts.beats_per_bar)
    IN  IF ShortTrack(w, beats)
        THEN [segments |-> <<SingleSegment(w)>>,
              bar_times |-> bar_times,
              segment_count |-> 1,
              time_signature |-> ts,
              path |-> "short"]
        ELSE LET segments == classify_segments(w, BoundaryTimes(w)) IN
             [segments |-> segments,
              bar_times |-> bar_times,
              segment_count |-> Len(segments),
              time_signature |-> ts,
              path |-> IF NoveltyBoundaries(w) # <<>> THEN "novelty"
                       ELSE IF AggloRaises(w) THEN "uniform" ELSE "agglomerative"]

----------------------------------------------------------------------------
(* Loop points, analyzer.py 534-687 *)

Abs(x) == IF x < 0 THEN -x ELSE x

RECURSIVE ISqrtIn(_, _, _)
ISqrtIn(n, lo, hi) ==
    IF lo >= hi THEN lo
    ELSE LET mid == (lo + hi + 1) \div 2 IN
         IF mid * mid <= n THEN ISqrtIn(n, mid, hi) ELSE ISqrtIn(n, lo, mid - 1)

(* floor of the square root *)
ISqrt(n) == ISqrtIn(n, 0, Min2(n, 46340))

(* 536-543: samples in the window of half-width window / 2 = 0.25 s around
   t, clipped to the audio *)
WindowLen(w, t) == Min2(w.dur, t + Sec \div 4) - Max2(0, t - Sec \div 4)

WindowTooShort(w, t1, t2) ==
    WindowLen(w, t1) < Sec \div 8 \/ WindowLen(w, t2) < Sec \div 8

(* _chroma_similarity, 534-550 *)
chroma_similarity(w, t1, t2) ==
    IF WindowTooShort(w, t1, t2) THEN 0
    ELSE LET c1 == w.chroma[Slot(w, t1)]
             c2 == w.chroma[Slot(w, t2)]
         IN  IF NormSq(c1) = 0 \/ NormSq(c2) = 0 THEN 0
             ELSE ScaledRatio(Dot(c1, c2), ISqrt(NormSq(c1) * NormSq(c2)))

energy_match_zero(w, t1, t2) ==
    IF WindowTooShort(w, t1, t2) THEN 0
    ELSE LET rms1 == w.rms[Slot(w, t1)]
             rms2 == w.rms[Slot(w, t2)]
             max_rms == Max2(rms1, rms2)
         IN  IF max_rms = 0 THEN 0
             ELSE One - ScaledRatio(Abs(rms1 - rms2), max_rms)

(* _energy_match, 553-569 *)
energy_match(w, t1, t2) ==
    IF WindowTooShort(w, t1, t2) THEN 0
    ELSE LET rms1 == w.rms[Slot(w, t1)]
             rms2 == w.rms[Slot(w, t2)]
             max_rms == Max2(rms1, rms2)
         IN  IF max_rms = 0 THEN One
             ELSE One - ScaledRatio(Abs(rms1 - rms2), max_rms)

(* _spectral_match, 572-588 *)
spectral_match(w, t1, t2) ==
    IF WindowTooShort(w, t1, t2) THEN 0
    ELSE LET sc1 == w.centroid[Slot(w, t1)]
             sc2 == w.centroid[Slot(w, t2)]
             max_sc == Max2(sc1, sc2)
         IN  IF max_sc = 0 THEN One
             ELSE One - ScaledRatio(Abs(sc1 - sc2), max_sc)

(* compute_loop_quality, 591-596, rounded to 4 decimals at 660 *)
compute_loop_quality(w, start, end) ==
    (chroma_similarity(w, start, end) * 5
     + energy_match(w, start, end) * 3
     + spectral_match(w, start, end) * 2) \div 10

UnknownLabel == <<"unknown">>

(* find_section_for_time, 599-606 *)
find_section_for_time(segments, t) ==
    LET hits == {i \in DOMAIN segments :
                    segments[i].start_time <= t /\ t < segments[i].end_time}
    IN  IF hits # {} THEN segments[SetMin(hits)].label
        ELSE IF segments # <<>> THEN Last(segments).label
        ELSE UnknownLabel

BarLengths == <<1, 2, 4, 8, 16>>

(* int(t * 1000) *)
ToMs(t) == t \div Ms

Candidate_nobpb(w, segments, bar_times, bpb, i, bar_len) ==
    [loop_start_ms |-> ToMs(bar_times[i]),
     loop_end_ms |-> ToMs(bar_times[i + bar_len]),
     loop_beats |-> bar_len * 4,
     loop_bars |-> bar_len,
     quality_score |-> compute_loop_quality(w, bar_times[i], bar_times[i + bar_len]),
     section_label |-> find_section_for_time(segments, bar_times[i]),
     bar_aligned |-> TRUE,
     recommended |-> FALSE]

(* 643-664: the candidate starting at bar i (1-based) of bar_len bars *)
Candidate(w, segments, bar_times, bpb, i, bar_len) ==
    [loop_start_ms |-> ToMs(bar_times[i]),
     loop_end_ms |-> ToMs(bar_times[i + bar_len]),
     loop_beats |-> bar_len * bpb,
     loop_bars |-> bar_len,
     quality_score |-> compute_loop_quality(w, bar_times[i], bar_times[i + bar_len]),
     section_label |-> find_section_for_time(segments, bar_times[i]),
     bar_aligned |-> TRUE,
     recommended |-> FALSE]

RECURSIVE CandidatesFrom(_, _, _, _, _, _)
(* 641-664: the candidates in the order the two loops append them *)
CandidatesFrom(w, segments, bar_times, bpb, k, i) ==
    IF k > Len(BarLengths) THEN <<>>
    ELSE IF i > Len(bar_times) - BarLengths[k]
         THEN CandidatesFrom(w, segments, bar_times, bpb, k + 1, 1)
         ELSE (IF bar_times[i + BarLengths[k]] - bar_times[i] < HalfSec
               THEN <<>>
               ELSE <<Candidate(w, segments, bar_times, bpb, i, BarLengths[k])>>)
              \o CandidatesFrom(w, segments, bar_times, bpb, k, i + 1)

Candidates(w, segments, bar_times, bpb) ==
    CandidatesFrom(w, segments, bar_times, bpb, 1, 1)

(* 667 *)
PassScore == 6000

Passing_nofilter(cands) == cands

Passing(cands) ==
    LET Ok(c) == c.quality_score >= PassScore IN SelectSeq(cands, Ok)

(* list.sort(key = quality_score, reverse = True): stable *)
RECURSIVE SortByScoreDesc(_)
SortByScoreDesc(s) ==
    IF s = <<>> THEN <<>>
    ELSE LET rest == SortByScoreDesc(SubSeq(s, 1, Len(s) - 1))
             x == Last(s)
             k == Cardinality({j \in DOMAIN rest :
                                  rest[j].quality_score >= x.quality_score})
         IN  SubSeq(rest, 1, k) \o <<x>> \o SubSeq(rest, k + 1, Len(rest))

LoopKey(c) == <<c.loop_start_ms, c.loop_bars>>

Dedup_none(s) == s

(* 671-677: first entry of each (loop_start_ms, loop_bars) key *)
Dedup(s) ==
    LET keep == {i \in DOMAIN s :
                    \A j \in 1..(i - 1) : LoopKey(s[j]) # LoopKey(s[i])}
        idx == SortedSeq(keep)
    IN  [k \in DOMAIN idx |-> s[idx[k]]]

(* 680 *)
TopN == 5

Recommend_all(deduped) == [i \in DOMAIN deduped |-> [deduped[i] EXCEPT !.recommended = TRUE]]

(* 680-682: the first five entries are flagged in place, so the flag shows
   in both lists *)
Recommend(deduped) ==
    [i \in DOMAIN deduped |->
        IF i <= TopN THEN [deduped[i] EXCEPT !.recommended = TRUE] ELSE deduped[i]]

(* extract_loop_points, 609-687, called with bar_times given *)
extract_loop_points(w, segments, bar_times, bpb) ==
    IF Len(bar_times) < 2
    THEN [recommended |-> <<>>, all |-> <<>>]
    ELSE LET deduped == Recommend(Dedup(SortByScoreDesc(
                            Passing(Candidates(w, segments, bar_times, bpb)))))
         IN  [recommended |-> SubSeq(deduped, 1, Min2(TopN, Len(deduped))),
              all |-> deduped]

----------------------------------------------------------------------------
(* Arrangement markers, analyzer.py 987-1014.  Strings the code builds     *)
(* from parts (f-strings) are tuples of the parts: <<"intro", 1>> is       *)
(* "intro_1" and <<"intro">> is "intro".                                   *)

(* list.sort(key = position_ms): stable *)
RECURSIVE SortByPosition(_)
SortByPosition(s) ==
    IF s = <<>> THEN <<>>
    ELSE LET rest == SortByPosition(SubSeq(s, 1, Len(s) - 1))
             x == Last(s)
             k == Cardinality({j \in DOMAIN rest :
                                  rest[j].position_ms <= x.position_ms})
         IN  SubSeq(rest, 1, k) \o <<x>> \o SubSeq(rest, k + 1, Len(rest))

extract_arrangement_markers_unsorted(w) == w.detected

(* 1004-1014: the four detectors' markers, concatenated and sorted *)
extract_arrangement_markers(w) == SortByPosition(w.detected)

----------------------------------------------------------------------------
(* Auto cues, analyzer.py 1168-1227 *)

(* 1174-1185 *)
cue_color_map ==
    [key_change |-> "#9B59B6", energy_rise |-> "#E74C3C",
     energy_drop |-> "#3498DB", drop |-> "#F39C12", build_up |-> "#2ECC71",
     intro |-> "#1ABC9C", verse |-> "#2980B9", chorus |-> "#E91E63",
     bridge |-> "#FF9800", outro |-> "#607D8B"]

DefaultColor == "#95A5A6"

(* cue_color_map.get(cue_type, "#95A5A6") *)
ColorOf(cue_type) ==
    IF Len(cue_type) = 1 /\ cue_type[1] \in DOMAIN cue_color_map
    THEN cue_color_map[cue_type[1]]
    ELSE DefaultColor

(* dict.get(key, default) *)
Get(d, key, default) == IF key \in DOMAIN d THEN d[key] ELSE default

(* 1189-1202 *)
MarkerCue(marker) ==
    LET cue_type == <<marker.marker_type>>
        confidence == IF "confidence" \in DOMAIN marker.metadata
                      THEN marker.metadata.confidence
                      ELSE marker.intensity
    IN  [position_ms |-> marker.position_ms,
         label |-> <<marker.description>>,
         cue_type |-> cue_type,
         color |-> ColorOf(cue_type),
         confidence |-> confidence]

(* 1206-1215: int(seg.get("start_ms", seg.get("start", 0) * 1000)); the
   seconds of "start" would be Sec ticks each, a millisecond Ms ticks *)
SegmentCuePosition(seg) ==
    IF "start_ms" \in DOMAIN seg THEN seg.start_ms
    ELSE ToMs(Get(seg, "start", 0))

SegmentCue(seg) ==
    LET seg_type == Get(seg, "label", <<"unknown">>) IN
    [position_ms |-> SegmentCuePosition(seg),
     label |-> Get(seg, "label", <<"Section">>) \o <<"start">>,
     cue_type |-> seg_type,
     color |-> ColorOf(seg_type),
     confidence |-> Get(seg, "confidence", 7000)]

(* 1187-1215 *)
RawCues(markers, segments) ==
    [i \in DOMAIN markers |-> MarkerCue(markers[i])]
    \o [i \in DOMAIN segments |-> SegmentCue(segments[i])]

(* 1221 *)
MergeWindowMs == 500

(* 1220-1225, one iteration *)
MergeStep_append(deduped, cue) == Append(deduped, cue)

MergeStep_replaceties(deduped, cue) ==
    IF deduped # <<>>
       /\ Abs(cue.position_ms - Last(deduped).position_ms) < MergeWindowMs
    THEN IF cue.confidence >= Last(deduped).confidence
         THEN [deduped EXCEPT ![Len(deduped)] = cue]
         ELSE deduped
    ELSE Append(deduped, cue)

MergeStep(deduped, cue) ==
    IF deduped # <<>>
       /\ Abs(cue.position_ms - Last(deduped).position_ms) < MergeWindowMs
    THEN IF cue.confidence > Last(deduped).confidence
         THEN [deduped EXCEPT ![Len(deduped)] = cue]
         ELSE deduped
    ELSE Append(deduped, cue)

RECURSIVE MergeCues(_, _)
MergeCues(deduped, cues) ==
    IF cues = <<>> THEN deduped
    ELSE MergeCues(MergeStep(deduped, Head(cues)), Tail(cues))

(* 1217-1227 *)
ComposeAutoCues(markers, segments) ==
    MergeCues(<<>>, SortByPosition(RawCues(markers, segments)))

----------------------------------------------------------------------------
(* analyze_audio, analyzer.py 1047-1235.                                   *)
(*   pc               the feature block about to run                       *)
(*   features         the requested feature names                          *)
(*   wave             y, sr as loaded at 1064                              *)
(*   tempo_data       _tempo_data / _beat_times; <<>> is None              *)
(*   structure_data   _structure_data / _segments / _bar_times /           *)
(*                    _beats_per_bar; <<>> is None                         *)
(*   results          the results dict; a key not yet set holds <<>>       *)
(*   tempo_calls      how often extract_tempo has run                      *)
(*   structure_calls  how often extract_structure has run                  *)
(*   call, ret        arguments and return value of a function called on   *)
(*                    its own (the function specifications below)          *)

(* extract_tempo, 45-63 *)
extract_tempo(w) == [beats |-> w.beats, beat_count |-> Len(w.beats)]

(* extract_energy_curve, 1021-1040: one value every half second *)
extract_energy_curve(w) == [n_frames |-> 1 + w.dur \div HalfSec]

BasicFeatures == {"key", "energy", "spectral", "mfcc", "chroma"}

FeatureNames ==
    {"all", "tempo", "key", "structure", "loop_points", "arrangement",
     "auto_cues", "energy_curve"}

EmptyResults ==
    [tempo |-> <<>>, basic |-> {}, structure |-> <<>>, loop_points |-> <<>>,
     arrangement_markers |-> <<>>, auto_cues |-> <<>>, energy_curve |-> <<>>]

Want(f) == "all" \in features \/ f \in features

EnsureTempo_always ==
    /\ tempo_data' = <<extract_tempo(wave)>>
    /\ tempo_calls' = tempo_calls + 1

(* _ensure_tempo, 1092-1097 *)
EnsureTempo ==
    IF tempo_data # <<>>
    THEN UNCHANGED <<tempo_data, tempo_calls>>
    ELSE /\ tempo_data' = <<extract_tempo(wave)>>
         /\ tempo_calls' = tempo_calls + 1

EnsureStructure_notempo ==
    IF structure_data # <<>>
    THEN UNCHANGED <<tempo_data, tempo_calls, structure_data, structure_calls>>
    ELSE /\ UNCHANGED <<tempo_data, tempo_calls>>
         /\ IF tempo_data = <<>>
            THEN UNCHANGED <<structure_data, structure_calls>>
            ELSE /\ structure_data' = <<extract_structure(wave, tempo_data[1].beats)>>
                 /\ structure_calls' = structure_calls + 1

(* _ensure_structure, 1099-1108; when the assertion of 1104 fails nothing
   is stored *)
EnsureStructure ==
    IF structure_data # <<>>
    THEN UNCHANGED <<tempo_data, tempo_calls, structure_data, structure_calls>>
    ELSE /\ EnsureTempo
         /\ IF tempo_data' = <<>>
            THEN UNCHANGED <<structure_data, structure_calls>>
            ELSE /\ structure_data' = <<extract_structure(wave, tempo_data'[1].beats)>>
                 /\ structure_calls' = structure_calls + 1

Skip == UNCHANGED <<tempo_data, tempo_calls, structure_data, structure_calls, results>>

(* the assertions of 1115, 1138, 1149, 1160 and 1170 on the data after the
   block's _ensure call: _tempo_data and _beat_times are set together, and
   so are _structure_data and _segments *)
TempoAsserted == tempo_data' # <<>>

StructureAsserted == tempo_data' # <<>> /\ structure_data' # <<>>

(* 1113-1116 *)
TempoBlock ==
    /\ pc = "tempo"
    /\ IF Want("tempo")
       THEN /\ EnsureTempo
            /\ UNCHANGED <<structure_data, structure_calls>>
            /\ IF TempoAsserted
               THEN /\ results' = [results EXCEPT !.tempo = tempo_data']
                    /\ pc' = "basic"
               ELSE /\ results' = results
                    /\ pc' = "AssertionError"
       ELSE Skip /\ pc' = "basic"
    /\ UNCHANGED <<features, wave, call, ret>>

(* 1118-1131: key, energy, spectral, mfcc, chroma *)
BasicBlock ==
    /\ pc = "basic"
    /\ pc' = "structure"
    /\ results' = [results EXCEPT !.basic = {f \in BasicFeatures : Want(f)}]
    /\ UNCHANGED <<features, wave, tempo_data, tempo_calls, structure_data,
                   structure_calls, call, ret>>

(* 1136-1142 *)
StructureBlock ==
    /\ pc = "structure"
    /\ IF Want("structure")
       THEN /\ EnsureStructure
            /\ IF StructureAsserted
               THEN /\ results' = [results EXCEPT !.structure = structure_data',
                                                  !.tempo = tempo_data']
                    /\ pc' = "loop_points"
               ELSE /\ results' = results
                    /\ pc' = "AssertionError"
       ELSE Skip /\ pc' = "loop_points"
    /\ UNCHANGED <<features, wave, call, ret>>

(* 1147-1153 *)
LoopPointsBlock ==
    /\ pc = "loop_points"
    /\ IF Want("loop_points")
       THEN /\ EnsureStructure
            /\ IF StructureAsserted
               THEN /\ results' = [results EXCEPT !.loop_points =
                          <<extract_loop_points(wave, structure_data'[1].segments,
                                                structure_data'[1].bar_times,
                                                structure_data'[1].time_signature.beats_per_bar)>>]
                    /\ pc' = "arrangement"
               ELSE /\ results' = results
                    /\ pc' = "AssertionError"
       ELSE Skip /\ pc' = "arrangement"
    /\ UNCHANGED <<features, wave, call, ret>>

(* 1158-1163 *)
ArrangementBlock ==
    /\ pc = "arrangement"
    /\ IF Want("arrangement")
       THEN /\ EnsureStructure
            /\ IF StructureAsserted
               THEN /\ results' = [results EXCEPT !.arrangement_markers =
                                      <<extract_arrangement_markers(wave)>>]
                    /\ pc' = "auto_cues"
               ELSE /\ results' = results
                    /\ pc' = "AssertionError"
       ELSE Skip /\ pc' = "auto_cues"
    /\ UNCHANGED <<features, wave, call, ret>>

(* 1168-1227 *)
AutoCuesBlock ==
    /\ pc = "auto_cues"
    /\ IF Want("auto_cues")
       THEN /\ EnsureStructure
            /\ IF StructureAsserted
               THEN /\ results' = [results EXCEPT !.auto_cues =
                          <<ComposeAutoCues(extract_arrangement_markers(wave),
                                            structure_data'[1].segments)>>]
                    /\ pc' = "energy_curve"
               ELSE /\ results' = results
                    /\ pc' = "AssertionError"
       ELSE Skip /\ pc' = "energy_curve"
    /\ UNCHANGED <<features, wave, call, ret>>

(* 1232-1235 *)
EnergyCurveBlock ==
    /\ pc = "energy_curve"
    /\ pc' = "done"
    /\ results' = [results EXCEPT !.energy_curve =
                      IF Want("energy_curve") THEN <<extract_energy_curve(wave)>>
                      ELSE <<>>]
    /\ UNCHANGED <<features, wave, tempo_data, tempo_calls, structure_data,
                   structure_calls, call, ret>>

Next ==
    \/ TempoBlock
    \/ BasicBlock
    \/ StructureBlock
    \/ LoopPointsBlock
    \/ ArrangementBlock
    \/ AutoCuesBlock
    \/ EnergyCurveBlock

(* the state after 1064-1090, for a wave of Waves and a request of Requests *)
InitWith(Waves, Requests) ==
    /\ pc = "tempo"
    /\ features \in Requests
    /\ wave \in Waves
    /\ tempo_data = <<>>
    /\ structure_data = <<>>
    /\ results = EmptyResults
    /\ tempo_calls = 0
    /\ structure_calls = 0
    /\ call = <<>>
    /\ ret = <<>>

----------------------------------------------------------------------------
(* Inputs of the checked instances *)

(* a mean chroma vector with energy a in pitch class C and b in pitch
   class E *)
Chroma(a, b) == [k \in 1..12 |-> IF k = 1 THEN a ELSE IF k = 5 THEN b ELSE 0]

BaseWave ==
    [dur |-> 40 * Sec, hop |-> HalfSec, beats |-> <<>>,
     scipy |-> TRUE, nov_err |-> FALSE, novelty |-> <<>>, nov_off |-> 0,
     agglo |-> "spread",
     rms |-> [k \in 1..NSlots |-> IF k = 2 THEN 100 ELSE 50],
     chroma |-> [k \in 1..NSlots |-> Chroma(10, 5 * (k % 3))],
     centroid |-> [k \in 1..NSlots |-> IF k = 1 THEN 20 ELSE 30],
     detected |-> <<>>]

(* beat onsets: the half-second grid of the 8-beat scenario, and two
   off-grid onsets *)
BeatPool == {k * HalfSec : k \in 0..7} \cup {3700 * Ms, 4 * Sec}

BeatSeqs == {SortedSeq(S) : S \in {T \in SUBSET BeatPool : Cardinality(T) <= MaxBeats}}

----------------------------------------------------------------------------
(* compute_bar_grid called on its own *)

InitCall(Calls, Waves) ==
    /\ pc = "call"
    /\ call \in Calls
    /\ ret = <<>>
    /\ features = {}
    /\ wave \in Waves
    /\ tempo_data = <<>>
    /\ structure_data = <<>>
    /\ results = EmptyResults
    /\ tempo_calls = 0
    /\ structure_calls = 0

BarGridCalls ==
    {[fn |-> "compute_bar_grid", beat_times |-> b, beats_per_bar |-> n] :
        b \in BeatSeqs, n \in {3, 4}}

ComputeBarGridCall ==
    /\ pc = "call"
    /\ call.fn = "compute_bar_grid"
    /\ ret' = compute_bar_grid(call.beat_times, call.beats_per_bar)
    /\ pc' = "return"
    /\ UNCHANGED <<features, wave, tempo_data, structure_data, results,
                   tempo_calls, structure_calls, call>>

SpecBarGrid == InitCall(BarGridCalls, {BaseWave}) /\ [][ComputeBarGridCall]_vars

BarGridReturned == pc = "return" /\ call.fn = "compute_bar_grid"

(* C3, as stated: for at least 2 beats the bar grid has
   floor(beats / beatsPerBar) + 1 entries *)
C3_LengthFloor ==
    (BarGridReturned /\ Len(call.beat_times) >= 2)
        => Len(ret) = Len(call.beat_times) \div call.beats_per_bar + 1

(* C3, amended: for at least 2 beats the bar grid has
   ceil(beats / beatsPerBar) + 1 entries: one per started bar and the
   extrapolated one *)
C3_LengthCeil ==
    (BarGridReturned /\ Len(call.beat_times) >= 2)
        => Len(ret) = (Len(call.beat_times) + call.beats_per_bar - 1)
                          \div call.beats_per_bar + 1

C3_Witness ==
    /\ BarGridReturned
    /\ Len(call.beat_times) >= 2
    /\ Len(call.beat_times) % call.beats_per_bar # 0
    /\ Len(ret) = Len(call.beat_times) \div call.beats_per_bar + 2

ScenarioBeats == [k \in 1..8 |-> (k - 1) * HalfSec]

(* C4: with at least 2 bar starts the grid is the beats at indices 0,
   beatsPerBar, 2 beatsPerBar, ... followed by exactly one entry that repeats
   the last gap; the 8-beat scenario gives [0.0, 2.0, 4.0] *)
C4_BarStartsThenExtrapolation ==
    (BarGridReturned /\ Len(call.beat_times) > call.beats_per_bar)
        => LET bpb == call.beats_per_bar
               n == (Len(call.beat_times) + bpb - 1) \div bpb
           IN  /\ Len(ret) = n + 1
               /\ \A k \in 1..n : ret[k] = call.beat_times[(k - 1) * bpb + 1]
               /\ ret[n + 1] = ret[n] + (ret[n] - ret[n - 1])
               /\ (call.beat_times = ScenarioBeats /\ bpb = 4)
                      => ret = <<0, 2 * Sec, 4 * Sec>>

C4_Witness ==
    /\ BarGridReturned
    /\ call.beat_times = ScenarioBeats
    /\ call.beats_per_bar = 4
    /\ ret = <<0, 2 * Sec, 4 * Sec>>

(* C5: for at least 2 strictly increasing beats the bar grid is strictly
   increasing, the extrapolated entry included, also when there is only one
   bar start *)
C5_StrictlyIncreasing ==
    (BarGridReturned /\ Len(call.beat_times) >= 2 /\ StrictlyIncreasing(call.beat_times))
        => StrictlyIncreasing(ret)

C5_Witness ==
    /\ BarGridReturned
    /\ Len(call.beat_times) >= 2
    /\ Len(call.beat_times) <= call.beats_per_bar
    /\ Len(ret) = 2
    /\ ret[1] < ret[2]

----------------------------------------------------------------------------
(* analyze_audio asked for the structure of a range of waves *)

(* how boundary detection goes: the novelty path with every curve of NovLen
   heights placed at the start or at the end of the track, or the novelty
   path unavailable (no scipy, or it raises) with every clustering outcome *)
DetectModes(n_frames) ==
    {[scipy |-> TRUE, nov_err |-> FALSE, novelty |-> nv, nov_off |-> off, agglo |-> ag] :
        nv \in [1..NovLen -> 0..2], off \in {0, Max2(0, n_frames - NovLen - 2)},
        ag \in {"spread", "raise"}}
    \cup
    {[scipy |-> sc, nov_err |-> ~sc, novelty |-> <<>>, nov_off |-> 0, agglo |-> ag] :
        sc \in BOOLEAN, ag \in {"early", "late", "spread", "raise"}}

StructureDurations == {10 * Sec, 29900 * Ms, 30 * Sec, 30400 * Ms, 47 * Sec, 125 * Sec}

(* 4096 / sr for sr = 44100, 8192, 2560 and 273 *)
StructureHops == {93 * Ms, HalfSec, 1600 * Ms, 15 * Sec}

StructureBeats == {<<0, HalfSec>>, <<0, HalfSec, Sec, 1500 * Ms>>, ScenarioBeats}

WithMode(w, m) ==
    [w EXCEPT !.scipy = m.scipy, !.nov_err = m.nov_err, !.novelty = m.novelty,
              !.nov_off = m.nov_off, !.agglo = m.agglo]

StructureWaves ==
    UNION {{WithMode([BaseWave EXCEPT !.dur = d, !.hop = h, !.beats = b], m) :
               m \in DetectModes(1 + d \div h)} :
           d \in StructureDurations, h \in StructureHops, b \in StructureBeats}

SpecStructure == InitWith(StructureWaves, {{"structure"}}) /\ [][Next]_vars

Segments == structure_data[1].segments

(* C1: the segments extract_structure returns partition [0, duration]: the
   first starts at 0, each ends where the next starts, the last ends at the
   duration, and each has start_time < end_time *)
C1_SegmentsPartition ==
    structure_data # <<>>
        => /\ Len(Segments) >= 1
           /\ Segments[1].start_time = 0
           /\ \A i \in 1..(Len(Segments) - 1) :
                  Segments[i].end_time = Segments[i + 1].start_time
           /\ Segments[Len(Segments)].end_time = wave.dur
           /\ \A i \in DOMAIN Segments : Segments[i].start_time < Segments[i].end_time

C1_Witness ==
    /\ structure_data # <<>>
    /\ structure_data[1].path = "agglomerative"
    /\ Len(Segments) >= 3
    /\ Segments[1].start_time = 0
    /\ Segments[Len(Segments)].end_time = wave.dur

(* C2: with a duration under 30 s or fewer than 4 beats extract_structure
   returns exactly one segment: intro, spanning [0, duration], confidence
   0.5, repetition group 0 *)
C2_ShortCircuit ==
    (structure_data # <<>>
        /\ (wave.dur < 30 * Sec \/ Len(tempo_data[1].beats) < 4))
        => /\ Len(Segments) = 1
           /\ structure_data[1].segment_count = 1
           /\ Segments[1].section_type = "intro"
           /\ Segments[1].start_time = 0
           /\ Segments[1].end_time = wave.dur
           /\ Segments[1].confidence = 5000
           /\ Segments[1].repetition_group = 0

(* the 10-second clip with 2 beats *)
C2_Witness ==
    /\ structure_data # <<>>
    /\ wave.dur = 10 * Sec
    /\ Len(tempo_data[1].beats) = 2
    /\ Len(Segments) = 1
    /\ Segments[1].section_type = "intro"
    /\ Segments[1].end_time = 10 * Sec

(* the boundary times 498-512 make of a list of boundary frames *)
TimesOf(frames) ==
    SortedSeq(Range(ForceEnd(ForceStart(frames_to_time(wave, frames)), wave.dur)))

(* the boundaries of the segments returned *)
SegmentBoundaries ==
    [k \in 1..(Len(Segments) + 1) |->
        IF k = 1 THEN Segments[1].start_time ELSE Segments[k - 1].end_time]

(* C17: on the full path the boundaries are those of the novelty peaks
   exactly when scipy is there, the novelty computation does not raise and
   there are at least 2 peaks; otherwise those of the agglomerative
   clustering unless it raises, and then the evenly spaced ones; and in
   every case at least one segment is returned *)
C17_FallbackChain ==
    (structure_data # <<>> /\ wave.dur >= 30 * Sec /\ Len(wave.beats) >= 4)
        => LET st == structure_data[1]
               peaks == NoveltyPeaks(wave)
               n == NFrames(wave)
               novelty_ok == wave.scipy /\ ~wave.nov_err /\ Len(peaks) >= 2
               agglo_ok == wave.agglo # "raise" /\ n >= NClusters(wave)
           IN  /\ Len(Segments) >= 1
               /\ st.segment_count = Len(Segments)
               /\ st.path = (IF novelty_ok THEN "novelty"
                              ELSE IF agglo_ok THEN "agglomerative" ELSE "uniform")
               /\ novelty_ok
                     => SegmentBoundaries = TimesOf(<<0>> \o peaks \o <<n - 1>>)
               /\ (~novelty_ok /\ ~agglo_ok)
                     => SegmentBoundaries
                            = TimesOf([i \in 1..(NUniform(wave) + 1) |->
                                          ((i - 1) * (n - 1)) \div NUniform(wave)])
               /\ (~novelty_ok /\ agglo_ok)
                     => \A k \in 2..Len(Segments) :
                            \E f \in 0..(n - 1) : Segments[k].start_time = f * wave.hop

(* scipy is there and nothing raises in the novelty computation, but it
   finds a single peak; the clustering raises, and the evenly spaced
   boundaries are used *)
C17_Witness ==
    /\ structure_data # <<>>
    /\ wave.dur >= 30 * Sec
    /\ Len(wave.beats) >= 4
    /\ wave.scipy
    /\ ~wave.nov_err
    /\ Len(NoveltyPeaks(wave)) = 1
    /\ wave.agglo = "raise"
    /\ structure_data[1].path = "uniform"
    /\ Len(Segments) >= 2

----------------------------------------------------------------------------
(* extract_loop_points called on its own *)

(* bar boundaries: some less than a millisecond apart, one past the end of
   the audio *)
BarPool ==
    {0, 1, 600 * Ms, Sec, 2 * Sec, 2 * Sec + 1, 3 * Sec, 4 * Sec, 7 * Sec}

BarGrids == {SortedSeq(S) : S \in {T \in SUBSET BarPool : Cardinality(T) <= MaxBars}}

LoopDuration == 6 * Sec

LoopWaves ==
    {[BaseWave EXCEPT !.dur = LoopDuration, !.rms = r, !.chroma = c] :
        r \in [1..NSlots -> {40, 100}] \cup {[k \in 1..NSlots |-> 0]},
        c \in {[k \in 1..NSlots |-> Chroma(10, 5 * ((k + j) % 3))] : j \in 0..1}
              \cup {[k \in 1..NSlots |-> IF k = 1 THEN ZeroChroma ELSE Chroma(10, 0)]}}

(* 17 bar boundaries a quarter second apart: room for a loop of 16 bars *)
LongGrid == [k \in 1..17 |-> (k - 1) * (Sec \div 4)]

LoopCalls ==
    {[fn |-> "extract_loop_points", bar_times |-> g, beats_per_bar |-> 4] :
        g \in BarGrids}
    \cup
    {[fn |-> "extract_loop_points", bar_times |-> LongGrid, beats_per_bar |-> n] :
        n \in {3, 4}}

CallSegments == classify_segments(wave, <<0, 3 * Sec, wave.dur>>)

ExtractLoopPointsCall ==
    /\ pc = "call"
    /\ call.fn = "extract_loop_points"
    /\ ret' = extract_loop_points(wave, CallSegments, call.bar_times,
                                  call.beats_per_bar)
    /\ pc' = "return"
    /\ UNCHANGED <<features, wave, tempo_data, structure_data, results,
                   tempo_calls, structure_calls, call>>

SpecLoops == InitCall(LoopCalls, LoopWaves) /\ [][ExtractLoopPointsCall]_vars

LoopsReturned == pc = "return" /\ call.fn = "extract_loop_points"

(* the candidates the two loops enumerate, before filtering *)
Enumerated ==
    Candidates(wave, CallSegments, call.bar_times, call.beats_per_bar)

NoDuplicateKey(s) ==
    \A i, j \in DOMAIN s : i # j => LoopKey(s[i]) # LoopKey(s[j])

(* C6: neither list holds two candidates with the same
   (loop_start_ms, loop_bars), and of the passing candidates that share a key
   the one kept has the highest score *)
C6_NoDuplicateKeys ==
    LoopsReturned
        => LET en == Enumerated IN
           /\ NoDuplicateKey(ret.all)
           /\ NoDuplicateKey(ret.recommended)
           /\ \A i \in DOMAIN en : \A k \in DOMAIN ret.all :
                  (en[i].quality_score >= 6000
                      /\ LoopKey(en[i]) = LoopKey(ret.all[k]))
                  => ret.all[k].quality_score >= en[i].quality_score

(* two bar times in the same millisecond give two passing candidates with
   one key and different scores *)
C6_Witness ==
    /\ LoopsReturned
    /\ Len(ret.all) >= 2
    /\ LET en == Enumerated IN
       \E i, j \in DOMAIN en :
          /\ i # j
          /\ LoopKey(en[i]) = LoopKey(en[j])
          /\ en[i].quality_score >= 6000
          /\ en[j].quality_score > en[i].quality_score

(* C7: recommended is the min(5, |all|) highest-scoring entries of all, and
   exactly those entries carry recommended = true *)
C7_RecommendedTopFive ==
    LoopsReturned
        => /\ Len(ret.recommended) = Min2(5, Len(ret.all))
           /\ Range(ret.recommended) \subseteq Range(ret.all)
           /\ \A a \in Range(ret.all) \ Range(ret.recommended) :
                  \A r \in Range(ret.recommended) :
                      a.quality_score <= r.quality_score
           /\ \A a \in Range(ret.all) :
                  a.recommended <=> a \in Range(ret.recommended)

C7_Witness ==
    /\ LoopsReturned
    /\ Len(ret.all) > 5
    /\ Len(ret.recommended) = 5
    /\ ~ret.all[6].recommended
    /\ ret.all[6].quality_score < ret.all[1].quality_score

(* C8: every entry of all scores at least 0.6, all is in non-increasing
   score order, every enumerated candidate scoring at least 0.6 has its key
   in all, and with no passing candidate or a grid of fewer than 2 entries
   both lists are empty *)
C8_ThresholdAndOrder ==
    LoopsReturned
        => LET en == Enumerated IN
           /\ \A k \in DOMAIN ret.all : ret.all[k].quality_score >= 6000
           /\ \A k \in 1..(Len(ret.all) - 1) :
                  ret.all[k].quality_score >= ret.all[k + 1].quality_score
           /\ \A i \in DOMAIN en :
                  en[i].quality_score >= 6000
                      => \E k \in DOMAIN ret.all :
                             LoopKey(ret.all[k]) = LoopKey(en[i])
           /\ ((Len(call.bar_times) < 2
                  \/ \A i \in DOMAIN en : en[i].quality_score < 6000)
                 => (ret.all = <<>> /\ ret.recommended = <<>>))

(* some candidates fail the threshold, several pass with different scores *)
C8_Witness ==
    /\ LoopsReturned
    /\ Len(ret.all) >= 2
    /\ ret.all[1].quality_score > ret.all[Len(ret.all)].quality_score
    /\ LET en == Enumerated IN
       \E i \in DOMAIN en : en[i].quality_score < 6000

(* C19: every returned candidate has 1, 2, 4, 8 or 16 bars, loop_beats =
   loop_bars * beats_per_bar, bar_aligned true, its start and end at
   bar-grid entries i and i + loop_bars of the grid, at least half a second
   apart, and loop_end_ms > loop_start_ms *)
C19_BarAlignedCandidates ==
    LoopsReturned
        => \A k \in DOMAIN ret.all :
              LET c == ret.all[k]
                  g == call.bar_times
              IN  /\ c.loop_bars \in {1, 2, 4, 8, 16}
                  /\ c.loop_beats = c.loop_bars * call.beats_per_bar
                  /\ c.bar_aligned
                  /\ c.loop_end_ms > c.loop_start_ms
                  /\ \E i \in 1..(Len(g) - c.loop_bars) :
                         /\ c.loop_start_ms = g[i] \div Ms
                         /\ c.loop_end_ms = g[i + c.loop_bars] \div Ms
                         /\ g[i + c.loop_bars] - g[i] >= HalfSec

(* loops of 16, 8 and 2 bars on a grid in 3/4 whose 1-bar loops are too
   short *)
C19_Witness ==
    /\ LoopsReturned
    /\ call.beats_per_bar = 3
    /\ \E k \in DOMAIN ret.all : ret.all[k].loop_bars = 16 /\ ret.all[k].loop_beats = 48
    /\ \E k \in DOMAIN ret.all : ret.all[k].loop_bars = 8
    /\ \E k \in DOMAIN ret.all : ret.all[k].loop_bars = 2
    /\ \A k \in DOMAIN ret.all : ret.all[k].loop_bars # 1

----------------------------------------------------------------------------
(* Markers *)

Marker(type, pos, intensity, meta) ==
    [marker_type |-> type, position_ms |-> pos, position_end_ms |-> <<>>,
     description |-> type, intensity |-> intensity, metadata |-> meta]

(* 764-768: only a key change carries a confidence in its metadata *)
KeyChangeMeta(conf) == [from_key |-> "C major", to_key |-> "G major", confidence |-> conf]

NoConfidenceMeta == [mean_rms |-> 50]

(* markers at any position: more than the detectors can give, so that what
   holds of the cues built from these holds of the cues built from the
   detectors' markers *)
AnyMarkers ==
    {Marker("key_change", 2000, 4000, KeyChangeMeta(8000)),
     Marker("build_up", 0, 2500, NoConfidenceMeta),
     Marker("drop", 300, 9500, NoConfidenceMeta),
     Marker("drop", 600, 3000, NoConfidenceMeta),
     Marker("energy_rise", 600, 9900, NoConfidenceMeta),
     Marker("energy_rise", 1000, 9000, NoConfidenceMeta),
     Marker("energy_drop", 1400, 9000, NoConfidenceMeta)}

RECURSIVE SeqsUpTo(_, _)
(* the sequences of at most n members of S *)
SeqsUpTo(S, n) ==
    IF n = 0 THEN {<<>>}
    ELSE LET shorter == SeqsUpTo(S, n - 1)
         IN  shorter \cup {Append(q, x) : q \in shorter, x \in S}

----------------------------------------------------------------------------
(* analyze_audio asked for the auto cues *)

CueTracks ==
    {[BaseWave EXCEPT !.dur = 10 * Sec, !.beats = <<0, HalfSec>>],
     [BaseWave EXCEPT !.dur = 40 * Sec, !.beats = ScenarioBeats,
                      !.scipy = FALSE, !.agglo = "spread"],
     [BaseWave EXCEPT !.dur = 47 * Sec, !.beats = ScenarioBeats,
                      !.novelty = <<1, 0, 2>>]}

CueWaves ==
    {[w EXCEPT !.detected = d] : w \in CueTracks, d \in SeqsUpTo(AnyMarkers, MaxMarkers)}

SpecCues == InitWith(CueWaves, {{"auto_cues"}}) /\ [][Next]_vars

AutoCues == results.auto_cues[1]

(* C9: the auto cues are in ascending position order and no two of them are
   within 500 ms of each other *)
C9_CuesSortedAndApart ==
    results.auto_cues # <<>>
        => /\ \A k \in 1..(Len(AutoCues) - 1) :
                  AutoCues[k].position_ms <= AutoCues[k + 1].position_ms
           /\ \A i, j \in DOMAIN AutoCues :
                  i # j => Abs(AutoCues[i].position_ms - AutoCues[j].position_ms) >= 500

(* a chain: the cue at 300 replaced the cue kept at 0, and the cue at 600,
   600 ms from the first, was then merged into it *)
C9_Witness ==
    /\ results.auto_cues # <<>>
    /\ \E i, j \in DOMAIN wave.detected :
          wave.detected[i].position_ms = 300 /\ wave.detected[j].position_ms = 600
    /\ \E k \in DOMAIN AutoCues : AutoCues[k].position_ms = 300
    /\ \A k \in DOMAIN AutoCues : AutoCues[k].position_ms \notin {0, 600}
    /\ Len(AutoCues) >= 2

----------------------------------------------------------------------------
(* analyze_audio, any request *)

PipelineWaves ==
    {[w EXCEPT !.detected = d] :
        w \in CueTracks,
        d \in {<<>>,
               <<Marker("key_change", 2000, 4000, KeyChangeMeta(8000)),
                 Marker("energy_rise", 2000, 9000, NoConfidenceMeta),
                 Marker("drop", 3000, 6000, NoConfidenceMeta)>>}}

Init == InitWith(PipelineWaves, SUBSET FeatureNames)

Spec == Init /\ [][Next]_vars

(* the cues of 1187-1215, before the merge *)
CuesBeforeMerge == RawCues(extract_arrangement_markers(wave), Segments)

(* C10: before merging there is one cue per segment, at the segment's start
   time in milliseconds *)
C10_SegmentCueAtSegmentStart ==
    results.auto_cues # <<>>
        => LET raw == CuesBeforeMerge
               n_markers == Len(wave.detected)
           IN  /\ Len(raw) = n_markers + Len(Segments)
               /\ \A k \in DOMAIN Segments :
                      raw[n_markers + k].position_ms = ToMs(Segments[k].start_time)

(* the section types that have a palette entry of their own, 1180-1184 *)
PaletteSections == {"intro", "verse", "chorus", "bridge", "outro"}

(* C11: before merging, the cue of every marker has the palette color of
   the marker's type, and the cue of every segment whose section type is
   intro, verse, chorus, bridge or outro has the palette color of that
   section type *)
C11_ColorFromPalette ==
    results.auto_cues # <<>>
        => LET raw == CuesBeforeMerge
               markers == extract_arrangement_markers(wave)
               n_markers == Len(markers)
           IN  /\ \A k \in DOMAIN markers :
                      raw[k].color = cue_color_map[markers[k].marker_type]
               /\ \A k \in DOMAIN Segments :
                      Segments[k].section_type \in PaletteSections
                          => raw[n_markers + k].color
                                 = cue_color_map[Segments[k].section_type]

----------------------------------------------------------------------------
(* The merge pass of the auto cues, over markers at any position *)

(* the cues in the order the merge pass reads them, 1218 *)
SortedCues == SortByPosition(CuesBeforeMerge)

(* the first cue of the highest confidence among s[lo..hi] *)
FirstBest(s, lo, hi) ==
    CHOOSE i \in lo..hi :
        /\ \A j \in lo..hi : s[j].confidence <= s[i].confidence
        /\ \A j \in lo..(i - 1) : s[j].confidence < s[i].confidence

(* C20: the sorted cues fall into consecutive groups, one per surviving
   cue: every cue of a group after its first is within 500 ms of the best
   cue before it in the group (the cue kept at that moment), the cue after
   the group is not within 500 ms of the group's best, and the survivor is
   the group's cue of the highest confidence, the earliest one on a tie *)
C20_SurvivorIsBestOfGroup ==
    results.auto_cues # <<>>
        => LET s == SortedCues
               n == Len(s)
           IN  \E starts \in SUBSET (1..n) :
                  LET b == SortedSeq(starts)
                      End(g) == IF g = Len(b) THEN n ELSE b[g + 1] - 1
                  IN  /\ Len(b) = Len(AutoCues)
                      /\ n > 0 => b[1] = 1
                      /\ \A g \in DOMAIN b :
                            /\ AutoCues[g] = s[FirstBest(s, b[g], End(g))]
                            /\ \A j \in (b[g] + 1)..End(g) :
                                   Abs(s[j].position_ms
                                       - s[FirstBest(s, b[g], j - 1)].position_ms) < 500
                            /\ End(g) < n
                                  => Abs(s[End(g) + 1].position_ms
                                         - s[FirstBest(s, b[g], End(g))].position_ms) >= 500

(* the energy rise at 1000 ms and the energy drop at 1400 ms, both of
   confidence 0.9, were collapsed and the energy rise, the earlier of the
   two, survived *)
C20_Witness ==
    /\ results.auto_cues # <<>>
    /\ \E i, j \in DOMAIN SortedCues :
          /\ i < j
          /\ SortedCues[i].cue_type = <<"energy_rise">>
          /\ SortedCues[i].position_ms = 1000
          /\ SortedCues[j].cue_type = <<"energy_drop">>
          /\ SortedCues[i].confidence = SortedCues[j].confidence
    /\ \E k \in DOMAIN AutoCues :
          AutoCues[k].cue_type = <<"energy_rise">> /\ AutoCues[k].position_ms = 1000
    /\ \A k \in DOMAIN AutoCues : AutoCues[k].cue_type # <<"energy_drop">>

----------------------------------------------------------------------------
(* Arrangement marker detectors, analyzer.py 694-984.                      *)
(* The audio y of a detector call is a record:                             *)
(*   sec      the RMS of each whole second of audio, in 1/100              *)
(*   bw       the mean spectral bandwidth of each 2 s window               *)
(*   kchroma  the mean chroma vector of each key window (4 s, hop 2 s)     *)
(* A window that does not fit into the audio is not read (pos + hop <=     *)
(* len(y)).                                                                *)

(* the longest audio of a detector call, in seconds *)
MaxWindows == 7

(* 794-798, 862-866, 925-933: the RMS of the consecutive windows of
   window_sec seconds; the mean of the squares under the root *)
WindowRms(y, window_sec) ==
    [k \in 1..(Len(y.sec) \div window_sec) |->
        ISqrt(SumSeq([j \in 1..window_sec |->
                        y.sec[(k - 1) * window_sec + j]
                        * y.sec[(k - 1) * window_sec + j]])
              \div window_sec)]

(* times[i] * 1000 for the window of 0-based index i *)
WindowMs(i, window_sec) == i * window_sec * 1000

(* 880: rms_arr[i] < 0.3 * mean_rms, the mean being total / n *)
IsDip(x, total, n) == x * n * 10 < 3 * total

(* 883: rms_arr[i + j] > 1.5 * mean_rms *)
IsSpike(x, total, n) == x * n * 2 > 3 * total

SpikeOffset_next(rms, i, total) == 1

(* 882-899: the first j of range(1, min(3, len(rms_arr) - i)) whose window
   is a spike, 0 when there is none; i is 0-based *)
SpikeOffset(rms, i, total) ==
    LET n == Len(rms)
        js == {j \in 1..(Min2(3, n - i) - 1) : IsSpike(rms[i + 1 + j], total, n)}
    IN  IF js = {} THEN 0 ELSE SetMin(js)

DropMarker_noclamp(rms, i, j, total) ==
    [marker_type |-> "drop",
     position_ms |-> WindowMs(i, 1),
     position_end_ms |-> <<WindowMs(i + j, 1)>>,
     description |-> <<"Drop detected (energy dip then spike)">>,
     intensity |-> ScaledRatio((rms[i + 1 + j] - rms[i + 1]) * Len(rms), 2 * total),
     metadata |-> [dip_rms |-> rms[i + 1], spike_rms |-> rms[i + 1 + j],
                   mean_rms |-> total \div Len(rms)]]

(* 884-898 *)
DropMarker(rms, i, j, total) ==
    LET n == Len(rms)
        dip == rms[i + 1]
        spike == rms[i + 1 + j]
    IN  [marker_type |-> "drop",
         position_ms |-> WindowMs(i, 1),
         position_end_ms |-> <<WindowMs(i + j, 1)>>,
         description |-> <<"Drop detected (energy dip then spike)">>,
         intensity |-> Min2(One, ScaledRatio((spike - dip) * n, 2 * total)),
         metadata |-> [dip_rms |-> dip, spike_rms |-> spike,
                       mean_rms |-> total \div n]]

RECURSIVE DropsFrom(_, _, _)
(* 878-899, from the 0-based window i on *)
DropsFrom(rms, i, total) ==
    IF i >= Len(rms) - 2 THEN <<>>
    ELSE LET j == IF IsDip(rms[i + 1], total, Len(rms))
                  THEN SpikeOffset(rms, i, total) ELSE 0
         IN  (IF j > 0 THEN <<DropMarker(rms, i, j, total)>> ELSE <<>>)
             \o DropsFrom(rms, i + 1, total)

detect_drops_fromfirst(y) ==
    LET rms == WindowRms(y, 1)
        total == SumSeq(rms)
    IN  IF Len(rms) < 4 THEN <<>>
        ELSE IF total = 0 THEN <<>>
        ELSE DropsFrom(rms, 0, total)

(* 843-901 *)
detect_drops(y) ==
    LET rms == WindowRms(y, 1)
        total == SumSeq(rms)
    IN  IF Len(rms) < 4 THEN <<>>
        ELSE IF total = 0 THEN <<>>
        ELSE DropsFrom(rms, 1, total)

----------------------------------------------------------------------------
(* detect_drops called on its own *)

RmsLevels == {10, 100, 300}

SilentAudio(n) == [sec |-> [k \in 1..n |-> 0], bw |-> <<>>, kchroma |-> <<>>]

DropAudio ==
    {[sec |-> r, bw |-> <<>>, kchroma |-> <<>>] :
        r \in [1..3 -> RmsLevels] \cup [1..MaxWindows -> RmsLevels]}
    \cup {SilentAudio(4)}

DropCalls == {[fn |-> "detect_drops", y |-> a] : a \in DropAudio}

DetectDropsCall ==
    /\ pc = "call"
    /\ call.fn = "detect_drops"
    /\ ret' = detect_drops(call.y)
    /\ pc' = "return"
    /\ UNCHANGED <<features, wave, tempo_data, structure_data, results,
                   tempo_calls, structure_calls, call>>

SpecDrops == InitCall(DropCalls, {BaseWave}) /\ [][DetectDropsCall]_vars

DropsReturned == pc = "return" /\ call.fn = "detect_drops"

(* the scenario's series 1, 1, 1, 0.1, 1, 1, 1 *)
ScenarioRms == [k \in 1..7 |-> IF k = 4 THEN 10 ELSE 100]

(* the same series with window 4 at 3.0 *)
SpikedRms == [k \in 1..7 |-> IF k = 4 THEN 10 ELSE IF k = 5 THEN 300 ELSE 100]

DropAt(m, dip, spike) ==
    m.position_ms = dip * 1000 /\ m.position_end_ms = <<spike * 1000>>

(* C12 as stated: for the series 1, 1, 1, 0.1, 1, 1, 1 a drop marker is
   returned whose position is window 3 and whose end is window 4 *)
C12_ScenarioDrop ==
    DropsReturned /\ call.y.sec = ScenarioRms
        => \E k \in DOMAIN ret : DropAt(ret[k], 3, 4)

(* C12, amended: for the series 1, 1, 1, 0.1, 1, 1, 1 no marker is
   returned, since no window exceeds 1.5 times the mean; with window 4 at
   3.0 the one marker returned is positioned at window 3 and ends at window
   4; and for every series, a marker is positioned at a dip window (below
   0.3 times the mean) and ends at the first spike window (above 1.5 times
   the mean) among the next two *)
C12_DropNeedsSpike ==
    DropsReturned
        => LET rms == call.y.sec
               n == Len(rms)
               total == SumSeq(rms)
           IN  /\ rms = ScenarioRms => ret = <<>>
               /\ rms = SpikedRms => Len(ret) = 1 /\ DropAt(ret[1], 3, 4)
               /\ \A k \in DOMAIN ret :
                      \E i \in 1..(n - 3) : \E j \in 1..2 :
                         /\ DropAt(ret[k], i, i + j)
                         /\ rms[i + 1] * n * 10 < 3 * total
                         /\ rms[i + 1 + j] * n * 2 > 3 * total
                         /\ j = 2 => ~(rms[i + 2] * n * 2 > 3 * total)

C12_Witness ==
    /\ DropsReturned
    /\ call.y.sec = ScenarioRms
    /\ IsDip(ScenarioRms[4], SumSeq(ScenarioRms), 7)
    /\ ret = <<>>

----------------------------------------------------------------------------
(* classify_segments called on its own *)

(* a mean chroma vector with energy in the pitch classes C, E and G *)
Chroma3(a, b, c) == [Chroma(a, b) EXCEPT ![8] = c]

(* cosine similarities: 0.914 between the first two, 0.48 between the third
   and either of them, 0.903 between the second and the fourth, 0.65
   between the first and the fourth *)
ChromaPool ==
    <<Chroma3(10, 0, 0), Chroma3(9, 4, 0), Chroma3(5, 1, 9), Chroma3(6, 7, 0),
      ZeroChroma>>

EnergyLevels == {30, 70, 100}

(* every energy pattern with all segments alike, all segments different and
   the first two alike; every chroma pattern at one energy pattern *)
ClassifyWaves ==
    {[BaseWave EXCEPT !.dur = 30 * NSlots * Sec, !.rms = r, !.chroma = c] :
        r \in [1..NSlots -> EnergyLevels] \cup {[k \in 1..NSlots |-> 0]},
        c \in {[k \in 1..NSlots |-> ChromaPool[1]],
               [k \in 1..NSlots |-> ChromaPool[IF k <= 2 THEN 2 ELSE 3]],
               [k \in 1..NSlots |-> Chroma3(10 * (k % 2), 10 * (k % 3), k)]}}
    \cup
    {[BaseWave EXCEPT !.dur = 30 * NSlots * Sec, !.chroma = c] :
        c \in [1..NSlots -> Range(ChromaPool)]}

(* the boundaries between the slots of the wave: one segment per slot *)
SlotEdges(d) == [k \in 1..(NSlots + 1) |-> ((k - 1) * d) \div NSlots]

ClassifyCalls ==
    {[fn |-> "classify_segments", boundaries |-> b] :
        b \in {SlotEdges(30 * NSlots * Sec), <<0, 30 * NSlots * Sec>>, <<0>>,
               <<0, 30 * Sec, 30 * NSlots * Sec>>}}

ClassifySegmentsCall ==
    /\ pc = "call"
    /\ call.fn = "classify_segments"
    /\ ret' = classify_segments(wave, call.boundaries)
    /\ pc' = "return"
    /\ UNCHANGED <<features, wave, tempo_data, structure_data, results,
                   tempo_calls, structure_calls, call>>

SpecClassify == InitCall(ClassifyCalls, ClassifyWaves) /\ [][ClassifySegmentsCall]_vars

ClassifyReturned == pc = "return" /\ call.fn = "classify_segments"

(* the chroma centroid of the k-th segment of the call *)
CallChroma(k) == SegChroma(wave, call.boundaries[k], call.boundaries[k + 1])

(* cosine similarity above 0.85, of two mean chroma vectors *)
Similar(a, b) ==
    /\ NormSq(a) # 0
    /\ NormSq(b) # 0
    /\ 400 * Dot(a, b) * Dot(a, b) > 289 * NormSq(a) * NormSq(b)

(* the seed of the group of segment k: its first member *)
SeedOf(k) ==
    SetMin({j \in DOMAIN ret : ret[j].repetition_group = ret[k].repetition_group})

(* C13: the groups are those of the greedy seed-based scan: a segment that
   is not the seed of its group is similar (> 0.85) to the seed; a segment
   is never left out of the group of an earlier seed it is similar to,
   unless a still earlier seed took it; the groups are numbered in seed
   order; and segments with similarities 0.9 / 0.5 / 0.5 get the groups
   0, 0, 1 *)
C13_SeedBasedGroups ==
    ClassifyReturned
        => /\ \A k \in DOMAIN ret :
                  /\ SeedOf(k) # k => Similar(CallChroma(SeedOf(k)), CallChroma(k))
                  /\ \A s \in 1..(k - 1) :
                         SeedOf(s) = s /\ Similar(CallChroma(s), CallChroma(k))
                             => SeedOf(k) <= s
                  /\ ret[k].repetition_group
                         = Cardinality({s \in 1..(SeedOf(k) - 1) : SeedOf(s) = s})
           /\ (Len(ret) = 3 /\ \A k \in 1..3 : CallChroma(k) = ChromaPool[k])
                  => /\ ret[1].repetition_group = ret[2].repetition_group
                     /\ ret[3].repetition_group # ret[1].repetition_group

(* a group whose second and third member are both similar to the seed but
   not to each other *)
C13_Witness ==
    /\ ClassifyReturned
    /\ Len(ret) >= 3
    /\ \E s, j, k \in DOMAIN ret :
          /\ s < j /\ j < k
          /\ SeedOf(j) = s /\ SeedOf(k) = s
          /\ ~Similar(CallChroma(j), CallChroma(k))

----------------------------------------------------------------------------
(* analyze_audio, any request: the compute-on-first-need cache *)

(* what each downstream block stores, recomputed from the stored tempo and
   structure data *)
DownstreamFromStored ==
    LET st == structure_data[1] IN
    /\ results.tempo # <<>> => results.tempo = tempo_data
    /\ results.structure # <<>> => results.structure = structure_data
    /\ structure_data # <<>>
          => /\ tempo_data # <<>>
             /\ st = extract_structure(wave, tempo_data[1].beats)
    /\ results.loop_points # <<>>
          => results.loop_points
                 = <<extract_loop_points(wave, st.segments, st.bar_times,
                                         st.time_signature.beats_per_bar)>>
    /\ results.auto_cues # <<>>
          => results.auto_cues
                 = <<ComposeAutoCues(extract_arrangement_markers(wave), st.segments)>>

(* C14: in one run extract_tempo and extract_structure are each called at
   most once (exactly once when their data is there), the stored tempo and
   structure data never change once set, and what the downstream blocks
   store is computed from that stored data *)
C14_ComputedAtMostOnce ==
    /\ [](/\ tempo_calls = (IF tempo_data = <<>> THEN 0 ELSE 1)
          /\ structure_calls = (IF structure_data = <<>> THEN 0 ELSE 1)
          /\ DownstreamFromStored)
    /\ [][/\ tempo_data # <<>> => tempo_data' = tempo_data
          /\ structure_data # <<>> => structure_data' = structure_data]_vars

(* a run that asked for tempo, structure, loop points, arrangement and auto
   cues: four blocks needed the structure, five the tempo *)
C14_Witness ==
    /\ pc = "done"
    /\ {"tempo", "structure", "loop_points", "arrangement", "auto_cues"} \subseteq features
    /\ "all" \notin features
    /\ tempo_calls = 1
    /\ structure_calls = 1
    /\ results.loop_points # <<>>
    /\ results.auto_cues # <<>>

----------------------------------------------------------------------------
(* analyze_audio called again and again.  Every call has its locals and its
   results dict of its own (1072-1090); ret keeps the inputs and the results
   of the first run. *)

RunRequests ==
    {{}, {"all"}, {"tempo"}, {"structure", "loop_points"}, {"arrangement"},
     {"auto_cues"}, {"key", "energy_curve"}, {"loop_points", "auto_cues"}}

RunAgain_keepresults ==
    /\ pc = "done"
    /\ pc' = "tempo"
    /\ wave' \in PipelineWaves
    /\ features' \in RunRequests
    /\ tempo_data' = <<>>
    /\ structure_data' = <<>>
    /\ tempo_calls' = 0
    /\ structure_calls' = 0
    /\ ret' = IF ret = <<>>
              THEN <<[wave |-> wave, features |-> features, results |-> results]>>
              ELSE ret
    /\ UNCHANGED <<results, call>>

(* the next call of analyze_audio, 1047-1090 *)
RunAgain ==
    /\ pc = "done"
    /\ pc' = "tempo"
    /\ wave' \in PipelineWaves
    /\ features' \in RunRequests
    /\ tempo_data' = <<>>
    /\ structure_data' = <<>>
    /\ results' = EmptyResults
    /\ tempo_calls' = 0
    /\ structure_calls' = 0
    /\ ret' = IF ret = <<>>
              THEN <<[wave |-> wave, features |-> features, results |-> results]>>
              ELSE ret
    /\ UNCHANGED call

NextRun == Next \/ RunAgain

SpecRuns == InitWith(PipelineWaves, RunRequests) /\ [][NextRun]_vars

(* C15: a run on the wave and the feature list of the first run ends with
   the results of the first run, whatever ran in between *)
C15_SameInputSameResults ==
    (pc = "done" /\ ret # <<>> /\ ret[1].wave = wave /\ ret[1].features = features)
        => results = ret[1].results

(* a later run of the first run's full request on a full-path track with
   markers, ending with its structure, loop points and cues *)
C15_Witness ==
    /\ pc = "done"
    /\ ret # <<>>
    /\ ret[1].wave = wave
    /\ ret[1].features = features
    /\ features = {"all"}
    /\ wave.detected # <<>>
    /\ Len(Segments) >= 3
    /\ results.auto_cues # <<>>
    /\ results = ret[1].results

----------------------------------------------------------------------------
(* detect_energy_transitions, analyzer.py 778-840 (over 2 s windows) *)

(* np.gradient(rms_arr), doubled: central differences inside, one-sided
   differences at the two ends *)
Gradient2(rms) ==
    LET n == Len(rms) IN
    [k \in 1..n |-> IF k = 1 THEN 2 * (rms[2] - rms[1])
                    ELSE IF k = n THEN 2 * (rms[n] - rms[n - 1])
                    ELSE rms[k + 1] - rms[k - 1]]

(* n^2 times the variance of g: np.std(g) ^ 2 = VarN2(g) / n^2 *)
VarN2(g) ==
    Len(g) * SumSeq([k \in DOMAIN g |-> g[k] * g[k]]) - SumSeq(g) * SumSeq(g)

BeyondStd_half(g, k) == 4 * g[k] * g[k] * Len(g) * Len(g) > VarN2(g)

(* 813, 826: |gradient[i]| > threshold = 1.0 * grad_std *)
BeyondStd(g, k) == g[k] * g[k] * Len(g) * Len(g) > VarN2(g)

(* 814-825, 827-838; i is 0-based *)
TransitionMarker(type, rms, g, i) ==
    LET n == Len(rms) IN
    [marker_type |-> type,
     position_ms |-> WindowMs(i, 2),
     position_end_ms |-> <<WindowMs(Min2(i + 1, n - 1), 2)>>,
     description |-> <<IF type = "energy_rise" THEN "Significant energy increase"
                       ELSE "Significant energy decrease">>,
     intensity |-> Min2(One, ScaledRatio(Abs(g[i + 1]) * n, 2 * ISqrt(VarN2(g)))),
     metadata |-> [gradient2 |-> g[i + 1], rms_before |-> rms[i],
                   rms_after |-> rms[i + 1]]]

RECURSIVE TransitionsFrom(_, _, _)
(* 812-838, from the 0-based window i on *)
TransitionsFrom(rms, g, i) ==
    IF i >= Len(g) - 1 THEN <<>>
    ELSE (IF g[i + 1] > 0 /\ BeyondStd(g, i + 1)
          THEN <<TransitionMarker("energy_rise", rms, g, i)>>
          ELSE IF g[i + 1] < 0 /\ BeyondStd(g, i + 1)
          THEN <<TransitionMarker("energy_drop", rms, g, i)>>
          ELSE <<>>)
         \o TransitionsFrom(rms, g, i + 1)

(* 778-840 *)
detect_energy_transitions(y) ==
    LET rms == WindowRms(y, 2) IN
    IF Len(rms) < 3 THEN <<>>
    ELSE LET g == Gradient2(rms) IN
         IF VarN2(g) = 0 THEN <<>>
         ELSE TransitionsFrom(rms, g, 1)

----------------------------------------------------------------------------
(* detect_buildups, analyzer.py 904-984 (over 2 s windows) *)

MinFrames == 3

(* 949-963, 968-982: windows first..last are 0-based *)
BuildupMarker(rms, first, last) ==
    LET start_rms == rms[first + 1]
        end_rms == rms[last + 1]
        intensity == IF start_rms = 0 THEN One
                     ELSE Min2(One, ScaledRatio(end_rms - start_rms, 2 * start_rms))
    IN  [marker_type |-> "build_up",
         position_ms |-> WindowMs(first, 2),
         position_end_ms |-> <<WindowMs(last, 2)>>,
         description |-> <<"Build-up over", last + 1 - first, "windows">>,
         intensity |-> Max2(0, intensity),
         metadata |-> [duration_sec |-> (last + 1 - first) * 2,
                       start_rms |-> start_rms, end_rms |-> end_rms]]

RECURSIVE BuildupsFrom(_, _, _, _)
(* 941-982, from the 0-based window i on; run_start is <<>> for None *)
BuildupsFrom(rms, bw, i, run_start) ==
    IF i >= Len(rms)
    THEN IF run_start # <<>> /\ Len(rms) - run_start[1] >= MinFrames
         THEN <<BuildupMarker(rms, run_start[1], Len(rms) - 1)>>
         ELSE <<>>
    ELSE IF rms[i + 1] > rms[i] /\ bw[i + 1] > bw[i]
         THEN BuildupsFrom(rms, bw, i + 1,
                           IF run_start = <<>> THEN <<i - 1>> ELSE run_start)
         ELSE (IF run_start # <<>> /\ i - run_start[1] >= MinFrames
               THEN <<BuildupMarker(rms, run_start[1], i - 1)>>
               ELSE <<>>)
              \o BuildupsFrom(rms, bw, i + 1, <<>>)

(* 904-984 *)
detect_buildups(y) ==
    LET rms == WindowRms(y, 2) IN
    IF Len(rms) < MinFrames + 1 THEN <<>>
    ELSE BuildupsFrom(rms, y.bw, 1, <<>>)

----------------------------------------------------------------------------
(* detect_key_changes, analyzer.py 694-775 (4 s windows, 2 s hop) *)

(* 721-722 *)
major_profile == <<1, 0, 1, 0, 1, 1, 0, 1, 0, 1, 0, 1>>

minor_profile == <<1, 0, 1, 1, 0, 1, 0, 1, 1, 0, 1, 0>>

(* np.dot(np.roll(profile, k), chroma_mean) *)
RolledDot(profile, k, chroma_mean) ==
    SumSeq([i \in 1..12 |-> profile[((i - 1 - k) % 12) + 1] * chroma_mean[i]])

(* 735-747: the 24 candidates in the order the loop tries them, major
   before minor for each k; all correlations share the divisor chroma_norm,
   so they compare as their dot products do *)
KeyCandidates(chroma_mean) ==
    [c \in 1..24 |->
        LET k == (c - 1) \div 2
            mode == IF c % 2 = 1 THEN "major" ELSE "minor"
        IN  [key |-> k, mode |-> mode,
             dot |-> RolledDot(IF mode = "major" THEN major_profile
                               ELSE minor_profile, k, chroma_mean)]]

(* the first candidate of the largest correlation: a later one replaces the
   best only if strictly greater *)
BestKey(chroma_mean) ==
    LET cands == KeyCandidates(chroma_mean)
        top == SetMax({cands[c].dot : c \in 1..24})
    IN  cands[SetMin({c \in 1..24 : cands[c].dot = top})]

(* best_corr = dot / chroma_norm, in 1/10000 *)
BestCorr(chroma_mean) ==
    ScaledRatio(BestKey(chroma_mean).dot * 100, ISqrt(NormSq(chroma_mean) * 10000))

(* 756-757: change_magnitude = 1.0 - best_corr >= 0.15, i.e.
   dot / norm <= 0.85, dot being non-negative *)
ChangeAboveHysteresis(chroma_mean) ==
    LET d == BestKey(chroma_mean).dot IN
    400 * d * d <= 289 * NormSq(chroma_mean)

(* 758-770; i is the 0-based window *)
KeyChangeMarker(chroma_mean, prev, i) ==
    LET best == BestKey(chroma_mean)
        corr == BestCorr(chroma_mean)
    IN  [marker_type |-> "key_change",
         position_ms |-> WindowMs(i, 2),
         position_end_ms |-> <<>>,
         description |-> <<"Key change to", best.key, best.mode>>,
         intensity |-> Min2(One, 2 * (One - corr)),
         metadata |-> [from_key |-> <<prev[1].key, prev[1].mode>>,
                       to_key |-> <<best.key, best.mode>>,
                       confidence |-> corr]]

RECURSIVE KeyChangesFrom(_, _, _)
(* 725-774, from the 0-based window i on; prev is <<>> for None *)
KeyChangesFrom(y, i, prev) ==
    IF i * 2 + 4 > Len(y.sec) THEN <<>>
    ELSE LET chroma_mean == y.kchroma[i + 1] IN
         IF NormSq(chroma_mean) = 0 THEN KeyChangesFrom(y, i + 1, prev)
         ELSE LET best == BestKey(chroma_mean)
                  changed == /\ prev # <<>>
                             /\ (best.key # prev[1].key \/ best.mode # prev[1].mode)
              IN  (IF changed /\ ChangeAboveHysteresis(chroma_mean)
                   THEN <<KeyChangeMarker(chroma_mean, prev, i)>>
                   ELSE <<>>)
                  \o KeyChangesFrom(y, i + 1, <<[key |-> best.key, mode |-> best.mode]>>)

(* 694-775 *)
detect_key_changes(y) == KeyChangesFrom(y, 0, <<>>)

(* 1004-1009: the markers of the four detectors, in the order appended *)
DetectedMarkers(y) ==
    detect_key_changes(y) \o detect_energy_transitions(y)
    \o detect_drops(y) \o detect_buildups(y)

----------------------------------------------------------------------------
(* extract_arrangement_markers called on its own *)

MarkerLevels == {0, 100, 300}

(* the number of key windows in n seconds of audio *)
KeyWindows(n) == IF n < 4 THEN 0 ELSE (n - 4) \div 2 + 1

(* D, F sharp and A *)
DChord == [ZeroChroma EXCEPT ![3] = 10, ![7] = 4, ![10] = 8]

(* bandwidths and key-window chroma: a widening spectrum in one key, a flat
   spectrum changing chord with every window, a widening spectrum with no
   pitch in the second key window *)
Timbres(n) ==
    {[bw |-> [k \in 1..(n \div 2) |-> k],
      kchroma |-> [k \in 1..KeyWindows(n) |-> Chroma3(10, 4, 8)]],
     [bw |-> [k \in 1..(n \div 2) |-> 5],
      kchroma |-> [k \in 1..KeyWindows(n) |->
                     IF k % 2 = 1 THEN Chroma3(10, 4, 8) ELSE DChord]],
     [bw |-> [k \in 1..(n \div 2) |-> k],
      kchroma |-> [k \in 1..KeyWindows(n) |->
                     IF k = 2 THEN ZeroChroma ELSE DChord]]}

(* the RMS of each second: the first four seconds silent or at 1.0, the
   later ones at any level; and a track too short for any detector *)
MarkerSeries ==
    {a \o b : a \in [1..4 -> {0, 100}], b \in [1..(MaxWindows - 3) -> MarkerLevels]}
    \cup {<<100, 300, 100>>}

MarkerAudio ==
    UNION {{[sec |-> r, bw |-> t.bw, kchroma |-> t.kchroma] : t \in Timbres(Len(r))} :
           r \in MarkerSeries}

MarkerCalls == {[fn |-> "extract_arrangement_markers", y |-> a] : a \in MarkerAudio}

ExtractArrangementMarkersCall ==
    /\ pc = "call"
    /\ call.fn = "extract_arrangement_markers"
    /\ ret' = extract_arrangement_markers(
                  [wave EXCEPT !.detected = DetectedMarkers(call.y)])
    /\ pc' = "return"
    /\ UNCHANGED <<features, wave, tempo_data, structure_data, results,
                   tempo_calls, structure_calls, call>>

SpecMarkers == InitCall(MarkerCalls, {BaseWave}) /\ [][ExtractArrangementMarkersCall]_vars

MarkersReturned == pc = "return" /\ call.fn = "extract_arrangement_markers"

(* how often marker m occurs in the list s *)
Occurrences(m, s) == Cardinality({i \in DOMAIN s : s[i] = m})

(* C18: the markers returned are those of the four detectors, each as often
   as the detectors gave it, in non-decreasing position order *)
C18_ConcatenatedAndSorted ==
    MarkersReturned
        => LET four == detect_key_changes(call.y) \o detect_energy_transitions(call.y)
                       \o detect_drops(call.y) \o detect_buildups(call.y)
           IN  /\ Len(ret) = Len(four)
               /\ \A i \in DOMAIN ret : Occurrences(ret[i], ret) = Occurrences(ret[i], four)
               /\ \A i \in 1..(Len(ret) - 1) : ret[i].position_ms <= ret[i + 1].position_ms

(* a transition, a drop and a build-up were found, and the build-up, last
   in the concatenation, is not last in the result *)
C18_Witness ==
    /\ MarkersReturned
    /\ detect_energy_transitions(call.y) # <<>>
    /\ detect_drops(call.y) # <<>>
    /\ detect_buildups(call.y) # <<>>
    /\ Last(ret).marker_type # "build_up"

----------------------------------------------------------------------------
(* classify_segments, extract_loop_points and extract_arrangement_markers,
   each called on its own *)

(* grids of one loop between any two boundaries *)
PairGrids == {SortedSeq(S) : S \in {T \in SUBSET BarPool : Cardinality(T) = 2}}

ScoreCalls ==
    {[fn |-> "extract_loop_points", bar_times |-> g, beats_per_bar |-> 4] :
        g \in PairGrids \cup {LongGrid}}

InitScored ==
    \/ InitCall(ClassifyCalls, ClassifyWaves)
    \/ InitCall(ScoreCalls, LoopWaves)
    \/ InitCall(MarkerCalls, {BaseWave})

NextScored ==
    \/ ClassifySegmentsCall
    \/ ExtractLoopPointsCall
    \/ ExtractArrangementMarkersCall

SpecScored == InitScored /\ [][NextScored]_vars

UnitInterval == 0..One

(* C16: the confidence and the energy_profile of every segment, the
   quality_score of every loop candidate (returned, or enumerated and
   filtered out) and the intensity of every arrangement marker are in
   [0, 1] *)
C16_ScoresInUnitInterval ==
    /\ ClassifyReturned
          => \A k \in DOMAIN ret :
                 ret[k].confidence \in UnitInterval /\ ret[k].energy_profile \in UnitInterval
    /\ LoopsReturned
          => LET en == Enumerated IN
             /\ \A k \in DOMAIN ret.all : ret.all[k].quality_score \in UnitInterval
             /\ \A k \in DOMAIN en : en[k].quality_score \in UnitInterval
    /\ MarkersReturned
          => \A k \in DOMAIN ret : ret[k].intensity \in UnitInterval

(* silent segments, with energy_profile 0 *)
C16_Witness ==
    /\ ClassifyReturned
    /\ Len(ret) >= 3
    /\ \A k \in DOMAIN wave.rms : wave.rms[k] = 0
    /\ \A k \in DOMAIN ret : ret[k].energy_profile = 0 /\ ret[k].confidence >= 5000

----------------------------------------------------------------------------
(* classify_segments: the section type rules, 355-379 *)

(* the energy of the k-th segment of the call, as classify_segments
   measures it, and the largest of them (1 when all are 0) *)
CallEnergy(k) ==
    compute_segment_energy(wave, call.boundaries[k], call.boundaries[k + 1])

CallMaxEnergy ==
    LET m == SetMax({CallEnergy(k) : k \in DOMAIN ret})
    IN  IF m = 0 THEN 1 ELSE m

(* the number of segments in the repetition group of segment k *)
GroupSize(k) ==
    Cardinality({j \in DOMAIN ret :
                    ret[j].repetition_group = ret[k].repetition_group})

Interior(k) == k > 1 /\ k < Len(ret)

(* C21: an interior segment whose repetition group has at least 2 members
   is typed drop when its normalized energy is above 0.8, and chorus when
   it is above 0.65 and at most 0.8 *)
C21_DropAboveChorus ==
    ClassifyReturned
        => \A k \in DOMAIN ret :
              Interior(k) /\ GroupSize(k) >= 2
                  => /\ CallEnergy(k) * 100 > 80 * CallMaxEnergy
                            => ret[k].section_type = "drop"
                     /\ (/\ CallEnergy(k) * 100 > 65 * CallMaxEnergy
                         /\ CallEnergy(k) * 100 <= 80 * CallMaxEnergy)
                            => ret[k].section_type = "chorus"

(* C22: the first segment is typed intro; with at least 2 segments the last
   one is typed outro; whatever their energy and repetition count; and
   every label is the type, '_' and the 1-based index *)
C22_IntroOutroAndLabels ==
    ClassifyReturned /\ Len(ret) >= 1
        => /\ ret[1].section_type = "intro"
           /\ Len(ret) >= 2 => ret[Len(ret)].section_type = "outro"
           /\ \A k \in DOMAIN ret : ret[k].label = <<ret[k].section_type, k>>

(* three segments of one repetition group, the first and the last at the
   maximum energy: by energy and repetition count alone they would be
   chorus *)
C22_Witness ==
    /\ ClassifyReturned
    /\ Len(ret) = 3
    /\ GroupSize(1) = 3
    /\ CallEnergy(1) = 100 /\ CallEnergy(3) = 100
    /\ ret[1].label = <<"intro", 1>>
    /\ ret[3].label = <<"outro", 3>>

----------------------------------------------------------------------------
(* _detect_time_signature called on its own *)

MaxIntervals == 7

(* the intervals between successive beats: a beat of 120 and of 240 per
   minute, and two onsets reported at the same time *)
IntervalPool == {0, 250 * Ms, 500 * Ms}

(* the beat times that start at 0 and are the given intervals apart *)
RECURSIVE BeatsFrom(_, _)
BeatsFrom(t, intervals) ==
    IF intervals = <<>> THEN <<t>>
    ELSE <<t>> \o BeatsFrom(t + Head(intervals), Tail(intervals))

TimeSignatureCalls ==
    {[fn |-> "_detect_time_signature", beat_times |-> <<>>]}
    \cup {[fn |-> "_detect_time_signature", beat_times |-> BeatsFrom(0, d)] :
             d \in SeqsUpTo(IntervalPool, MaxIntervals)}

DetectTimeSignatureCall ==
    /\ pc = "call"
    /\ call.fn = "_detect_time_signature"
    /\ ret' = detect_time_signature(call.beat_times)
    /\ pc' = "return"
    /\ UNCHANGED <<features, wave, tempo_data, structure_data, results,
                   tempo_calls, structure_calls, call>>

SpecTimeSignature ==
    InitCall(TimeSignatureCalls, {BaseWave}) /\ [][DetectTimeSignatureCall]_vars

TimeSignatureReturned == pc = "return" /\ call.fn = "_detect_time_signature"

(* the sum of the products of the call's beat intervals that are lag apart *)
LagSum(lag) ==
    LET b == call.beat_times
    IN  SumSeq([i \in 1..(Len(b) - 1 - lag) |->
                  (b[i + 1] - b[i]) * (b[i + 1 + lag] - b[i + lag])])

(* the lag's autocorrelation over that of lag 0 (over 1 when that is 0) *)
LagCorrelation(lag) ==
    IF LagSum(0) = 0 THEN LagSum(lag) * One ELSE ScaledRatio(LagSum(lag), LagSum(0))

(* C23: with fewer than 6 beats or fewer than 6 intervals the result is the
   default 4 beats per bar at confidence 0.5; otherwise it is the estimate
   from the autocorrelation at lags 3 and 4 *)
C23_DefaultBelowSixIntervals ==
    TimeSignatureReturned
        => LET n == Len(call.beat_times) IN
           /\ (n < 6 \/ n - 1 < 6) => ret = [beats_per_bar |-> 4, confidence |-> 5000]
           /\ ~(n < 6 \/ n - 1 < 6)
                 => ret.confidence \in {Min2(One, LagCorrelation(3)),
                                        Min2(One, LagCorrelation(4))}

(* six beats give five intervals and the default, although the intervals
   repeat in threes *)
C23_Witness ==
    /\ TimeSignatureReturned
    /\ Len(call.beat_times) = 6
    /\ LagSum(3) * 20 > LagSum(4) * 23
    /\ ret = DefaultTimeSignature

(* C24: beats per bar is 3 or 4, and 3 only when the normalized lag-3
   autocorrelation exceeds 1.15 times that of lag 4; the confidence is the
   correlation of the winning lag, within [0, 1]; a zero lag-0
   autocorrelation is taken as 1 *)
C24_ThreeOnlyAboveMargin ==
    TimeSignatureReturned /\ Len(call.beat_times) >= 7
        => /\ ret.beats_per_bar \in {3, 4}
           /\ ret.beats_per_bar = 3 <=> LagSum(3) * 20 > LagSum(4) * 23
           /\ ret.confidence \in 0..One
           /\ ret.confidence = Min2(One, Max2(0, LagCorrelation(ret.beats_per_bar)))
           /\ LagSum(0) = 0 => ret = [beats_per_bar |-> 4, confidence |-> 0]

(* lag 3 is above lag 4, but by less than the margin: 4 beats per bar *)
C24_Witness ==
    /\ TimeSignatureReturned
    /\ Len(call.beat_times) >= 7
    /\ LagSum(3) > LagSum(4)
    /\ LagSum(3) * 20 <= LagSum(4) * 23
    /\ ret.beats_per_bar = 4
    /\ ret.confidence > 0

----------------------------------------------------------------------------
(* detect_buildups called on its own *)

MaxFrames == 5

(* the levels a window's RMS and spectral bandwidth take *)
FrameLevels == {10, 20, 30, 40}

(* audio whose 2 s windows have the given RMS and spectral bandwidth *)
FramedAudio(rms, bw) ==
    [sec |-> [k \in 1..(2 * Len(rms)) |-> rms[(k + 1) \div 2]],
     bw |-> bw, kchroma |-> <<>>]

(* every RMS series of up to MaxFrames windows; the bandwidth follows the
   RMS, stays flat, or widens steadily *)
BuildupAudio ==
    {FramedAudio(r, r) : r \in SeqsUpTo(FrameLevels, MaxFrames) \cup {<<0, 10, 20, 30>>}}
    \cup {FramedAudio(r, [k \in DOMAIN r |-> 10]) : r \in SeqsUpTo(FrameLevels, MaxFrames)}
    \cup {FramedAudio(r, [k \in DOMAIN r |-> k]) : r \in SeqsUpTo(FrameLevels, MaxFrames)}

BuildupCalls == {[fn |-> "detect_buildups", y |-> a] : a \in BuildupAudio}

DetectBuildupsCall ==
    /\ pc = "call"
    /\ call.fn = "detect_buildups"
    /\ ret' = detect_buildups(call.y)
    /\ pc' = "return"
    /\ UNCHANGED <<features, wave, tempo_data, structure_data, results,
                   tempo_calls, structure_calls, call>>

SpecBuildups == InitCall(BuildupCalls, {BaseWave}) /\ [][DetectBuildupsCall]_vars

BuildupsReturned == pc = "return" /\ call.fn = "detect_buildups"

(* the RMS of the call's k-th 2 s window, k from 1 *)
FrameRms(k) == call.y.sec[2 * k]

FrameCount == Len(call.y.sec) \div 2

(* window k rises: its RMS and its bandwidth are both above those of the
   window before it *)
Rising(k) ==
    /\ k \in 2..FrameCount
    /\ FrameRms(k) > FrameRms(k - 1)
    /\ call.y.bw[k] > call.y.bw[k - 1]

(* the maximal runs a..b of rising windows *)
RisingRuns ==
    {r \in (2..FrameCount) \X (2..FrameCount) :
        /\ r[1] <= r[2]
        /\ \A k \in r[1]..r[2] : Rising(k)
        /\ ~Rising(r[1] - 1)
        /\ ~Rising(r[2] + 1)}

(* the marker of the run: from the window before the first rising one to
   the last rising one, with the intensity of the energy increase *)
IsMarkerOfRun(m, r) ==
    LET start_rms == FrameRms(r[1] - 1)
        end_rms == FrameRms(r[2])
    IN  /\ m.marker_type = "build_up"
        /\ m.position_ms = (r[1] - 2) * 2000
        /\ m.position_end_ms = <<(r[2] - 1) * 2000>>
        /\ m.intensity = IF start_rms = 0 THEN One
                         ELSE Max2(0, Min2(One, ScaledRatio(end_rms - start_rms,
                                                            2 * start_rms)))

(* one marker for each maximal run of at least min_rising rising windows,
   in the order of the runs, and no other marker *)
RunsEmitted(min_rising) ==
    LET long == {r \in RisingRuns : r[2] - r[1] + 1 >= min_rising}
    IN  /\ Len(ret) = Cardinality(long)
        /\ \A r \in long : \E k \in DOMAIN ret : IsMarkerOfRun(ret[k], r)
        /\ \A j, k \in DOMAIN ret : j < k => ret[j].position_ms < ret[k].position_ms

(* C25: one build_up marker for every maximal run of at least 3 rising
   windows, whether a non-rising window or the end of the series ends it,
   none for a shorter run, with intensity min(1, (end/start - 1) / 2)
   floored at 0 *)
C25_ThreeRisingWindows ==
    BuildupsReturned => RunsEmitted(3)

----------------------------------------------------------------------------
(* detect_drops: which dips yield a marker *)

(* the 0-based window i of the call is a dip: below 0.3 times the mean *)
DipWindow(i) ==
    LET rms == call.y.sec
    IN  i \in 0..(Len(rms) - 1) /\ rms[i + 1] * Len(rms) * 10 < 3 * SumSeq(rms)

(* the 0-based window i of the call is a spike: above 1.5 times the mean *)
SpikeWindow(i) ==
    LET rms == call.y.sec
    IN  i \in 0..(Len(rms) - 1) /\ rms[i + 1] * Len(rms) * 2 > 3 * SumSeq(rms)

(* the markers positioned at the 0-based window i *)
DropsAtWindow(i) == {k \in DOMAIN ret : ret[k].position_ms = i * 1000}

(* for each window of the set that is a dip followed within 2 windows by a
   spike, exactly one marker, from the dip to the first such spike; for
   every other window of the series, none *)
OneDropPerDipIn(windows) ==
    \A i \in 0..(Len(call.y.sec) - 1) :
        IF i \in windows /\ DipWindow(i) /\ (SpikeWindow(i + 1) \/ SpikeWindow(i + 2))
        THEN /\ Cardinality(DropsAtWindow(i)) = 1
             /\ \A k \in DropsAtWindow(i) :
                    ret[k].position_end_ms
                        = <<(IF SpikeWindow(i + 1) THEN i + 1 ELSE i + 2) * 1000>>
        ELSE DropsAtWindow(i) = {}

(* C26 as stated: every dip window followed within the next 2 windows by a
   spike yields exactly one drop marker, from the dip to the first such
   spike; any other window yields none *)
C26_EveryDipYieldsOneDrop ==
    DropsReturned /\ Len(call.y.sec) >= 4
        => OneDropPerDipIn(0..(Len(call.y.sec) - 1))

(* C26, amended: of the windows 1 .. n - 3 (0-based: not the first window
   and not the last two), every dip followed within the next 2 windows by a
   spike yields exactly one drop marker, from the dip to the first such
   spike; any other window yields none, a dip in the first window or in the
   last two included *)
C26_InteriorDipYieldsOneDrop ==
    DropsReturned /\ Len(call.y.sec) >= 4
        => OneDropPerDipIn(1..(Len(call.y.sec) - 3))

(* a dip with a spike in both of the next two windows has its one marker
   ending at the nearer; and a dip in the first window, followed by a
   spike, has none *)
C26_Witness ==
    /\ DropsReturned
    /\ Len(call.y.sec) >= 4
    /\ \E i \in 1..(Len(call.y.sec) - 3) :
           /\ DipWindow(i) /\ SpikeWindow(i + 1) /\ SpikeWindow(i + 2)
           /\ \E k \in DOMAIN ret : DropAt(ret[k], i, i + 1)
    /\ DipWindow(0) /\ SpikeWindow(1)
    /\ DropsAtWindow(0) = {}

----------------------------------------------------------------------------
(* detect_energy_transitions called on its own *)

TransitionAudio ==
    {FramedAudio(r, <<>>) : r \in SeqsUpTo(FrameLevels, MaxFrames)}

TransitionCalls ==
    {[fn |-> "detect_energy_transitions", y |-> a] : a \in TransitionAudio}

DetectEnergyTransitionsCall ==
    /\ pc = "call"
    /\ call.fn = "detect_energy_transitions"
    /\ ret' = detect_energy_transitions(call.y)
    /\ pc' = "return"
    /\ UNCHANGED <<features, wave, tempo_data, structure_data, results,
                   tempo_calls, structure_calls, call>>

SpecTransitions ==
    InitCall(TransitionCalls, {BaseWave}) /\ [][DetectEnergyTransitionsCall]_vars

TransitionsReturned == pc = "return" /\ call.fn = "detect_energy_transitions"

(* twice np.gradient of the call's window RMS at the 0-based window i:
   central differences inside, one-sided ones at the two ends *)
TwiceGradient(i) ==
    IF i = 0 THEN 2 * (FrameRms(2) - FrameRms(1))
    ELSE IF i = FrameCount - 1 THEN 2 * (FrameRms(FrameCount) - FrameRms(FrameCount - 1))
    ELSE FrameRms(i + 2) - FrameRms(i)

(* the mean of the squares of the gradient minus the square of its mean,
   times 4 n^2 *)
GradientVariance ==
    LET n == FrameCount
        g == [k \in 1..n |-> TwiceGradient(k - 1)]
    IN  n * SumSeq([k \in 1..n |-> g[k] * g[k]]) - SumSeq(g) * SumSeq(g)

(* gradient[i] > std(gradient) and gradient[i] < -std(gradient) *)
AboveStd(i) ==
    /\ TwiceGradient(i) > 0
    /\ TwiceGradient(i) * TwiceGradient(i) * FrameCount * FrameCount > GradientVariance

BelowMinusStd(i) ==
    /\ TwiceGradient(i) < 0
    /\ TwiceGradient(i) * TwiceGradient(i) * FrameCount * FrameCount > GradientVariance

(* the types of the markers positioned at the 0-based window i *)
TransitionsAt(i) == {k \in DOMAIN ret : ret[k].position_ms = i * 2000}

(* C27: with at least 3 windows and a gradient of non-zero standard
   deviation, for each interior window i there is an energy_rise marker iff
   gradient[i] > std(gradient), an energy_drop marker iff gradient[i] <
   -std(gradient), never both and never two; the first and the last window
   have none; and with fewer than 3 windows or a gradient of standard
   deviation 0 there are no markers at all *)
C27_TransitionsBeyondOneStd ==
    TransitionsReturned
        => /\ \A i \in 1..(FrameCount - 2) :
                  /\ Cardinality(TransitionsAt(i)) <= 1
                  /\ (\E k \in TransitionsAt(i) : ret[k].marker_type = "energy_rise")
                         <=> (FrameCount >= 3 /\ GradientVariance # 0 /\ AboveStd(i))
                  /\ (\E k \in TransitionsAt(i) : ret[k].marker_type = "energy_drop")
                         <=> (FrameCount >= 3 /\ GradientVariance # 0 /\ BelowMinusStd(i))
           /\ \A k \in DOMAIN ret :
                  /\ ret[k].marker_type \in {"energy_rise", "energy_drop"}
                  /\ \E i \in 1..(FrameCount - 2) : k \in TransitionsAt(i)
           /\ (FrameCount < 3 \/ GradientVariance = 0) => ret = <<>>

(* a series with a rise, a fall and an interior window that is neither;
   its end windows have the steepest gradient and no marker *)
C27_Witness ==
    /\ TransitionsReturned
    /\ \E i, j \in 1..(FrameCount - 2) :
           /\ \E k \in TransitionsAt(i) : ret[k].marker_type = "energy_rise"
           /\ TransitionsAt(j) = {} /\ TwiceGradient(j) # 0
    /\ AboveStd(0) \/ BelowMinusStd(0) \/ AboveStd(FrameCount - 1)
          \/ BelowMinusStd(FrameCount - 1)

----------------------------------------------------------------------------
(* detect_key_changes called on its own *)

(* the mean chroma of a 4 s window: the triads of C and of D, the single
   pitch class C, all twelve pitch classes alike, and silence *)
KeyChromaPool ==
    {Chroma3(10, 4, 8), DChord, Chroma(10, 0), [k \in 1..12 |-> 5], ZeroChroma}

(* audio of n key windows (2 n + 2 seconds) with the given mean chroma *)
KeyedAudio(kchroma) ==
    [sec |-> [k \in 1..(2 * Len(kchroma) + 2) |-> 100], bw |-> <<>>,
     kchroma |-> kchroma]

KeyChangeCalls ==
    {[fn |-> "detect_key_changes", y |-> KeyedAudio(c)] :
        c \in SeqsUpTo(KeyChromaPool, MaxFrames) \ {<<>>}}

DetectKeyChangesCall ==
    /\ pc = "call"
    /\ call.fn = "detect_key_changes"
    /\ ret' = detect_key_changes(call.y)
    /\ pc' = "return"
    /\ UNCHANGED <<features, wave, tempo_data, structure_data, results,
                   tempo_calls, structure_calls, call>>

SpecKeyChanges ==
    InitCall(KeyChangeCalls, {BaseWave}) /\ [][DetectKeyChangesCall]_vars

KeyChangesReturned == pc = "return" /\ call.fn = "detect_key_changes"

(* the 0-based key window i of the call is not silent *)
Pitched(i) ==
    i \in 0..(Len(call.y.kchroma) - 1) /\ NormSq(call.y.kchroma[i + 1]) # 0

(* the best (key, mode) of the 0-based window i *)
WindowKey(i) ==
    LET best == BestKey(call.y.kchroma[i + 1])
    IN  <<best.key, best.mode>>

(* the last non-silent window before window i; -1 when there is none *)
PreviousPitched(i) == SetMax({-1} \cup {j \in 0..(i - 1) : Pitched(j)})

(* 1 - bestCorrelation >= 0.15, the correlation of the window's chroma with
   its best template being their dot product over the product of their
   norms (the template's squared norm is 7) *)
ChangeMagnitudeAboveHysteresis(i) ==
    LET c == call.y.kchroma[i + 1]
        d == BestKey(c).dot
    IN  400 * d * d <= 289 * 7 * NormSq(c)

(* the markers positioned at the 0-based key window i *)
KeyChangesAt(i) == {k \in DOMAIN ret : ret[k].position_ms = i * 2000}

(* C28: a key_change marker is emitted at a window iff the window is not
   silent, its best (key, mode) differs from that of the previous
   non-silent window, and 1 - bestCorrelation >= 0.15; so the first
   non-silent window never emits, a silent window neither emits nor
   changes the key the next window is compared with, and the comparison is
   with the previous non-silent window whether or not that one emitted *)
C28_KeyChangeAboveHysteresis ==
    KeyChangesReturned
        => \A i \in 0..(Len(call.y.kchroma) - 1) :
              KeyChangesAt(i) # {}
                  <=> /\ Pitched(i)
                      /\ PreviousPitched(i) >= 0
                      /\ WindowKey(i) # WindowKey(PreviousPitched(i))
                      /\ ChangeMagnitudeAboveHysteresis(i)

----------------------------------------------------------------------------
(* the loop-quality sub-scores and classify_segments on silent, unpitched
   and too short audio *)

FallbackDuration == 30 * NSlots * Sec

(* per slot: silent everywhere, silent in the first slot only, nowhere;
   likewise without spectral centroid and without pitch *)
FallbackWaves ==
    {[BaseWave EXCEPT !.dur = FallbackDuration,
                      !.rms = [k \in 1..NSlots |-> IF k <= r THEN 0 ELSE 50 * k],
                      !.centroid = [k \in 1..NSlots |-> IF k <= c THEN 0 ELSE 20 + k],
                      !.chroma = [k \in 1..NSlots |->
                                    IF k <= h THEN ZeroChroma ELSE Chroma(10, 5 * (k % 2))]] :
        r \in {0, 1, NSlots}, c \in {0, 1, NSlots}, h \in {0, 1, NSlots}}

(* boundary times: inside the audio, and 0.2 s and 5 s past its end, where
   the 0.5 s window holds 0.05 s of samples and none *)
FallbackTimes ==
    {0, FallbackDuration \div 2, FallbackDuration - Sec, FallbackDuration + 200 * Ms,
     FallbackDuration + 5 * Sec}

SubScoreCalls ==
    {[fn |-> f, t1 |-> a, t2 |-> b] :
        f \in {"_chroma_similarity", "_energy_match", "_spectral_match"},
        a \in FallbackTimes, b \in FallbackTimes}

SubScoreCall ==
    /\ pc = "call"
    /\ call.fn \in {"_chroma_similarity", "_energy_match", "_spectral_match"}
    /\ ret' = IF call.fn = "_chroma_similarity"
                 THEN chroma_similarity(wave, call.t1, call.t2)
              ELSE IF call.fn = "_energy_match"
                 THEN energy_match(wave, call.t1, call.t2)
              ELSE spectral_match(wave, call.t1, call.t2)
    /\ pc' = "return"
    /\ UNCHANGED <<features, wave, tempo_data, structure_data, results,
                   tempo_calls, structure_calls, call>>

InitFallbacks ==
    \/ InitCall(SubScoreCalls, FallbackWaves)
    \/ InitCall({[fn |-> "classify_segments", boundaries |-> SlotEdges(FallbackDuration)]},
                FallbackWaves)

NextFallbacks == SubScoreCall \/ ClassifySegmentsCall

SpecFallbacks == InitFallbacks /\ [][NextFallbacks]_vars

SubScoreReturned(f) == pc = "return" /\ call.fn = f

(* the samples the 0.5 s window around t holds, in ticks *)
SamplesAround(t) == Min2(wave.dur, t + 250 * Ms) - Max2(0, t - 250 * Ms)

BothWindowsLongEnough ==
    SamplesAround(call.t1) >= 125 * Ms /\ SamplesAround(call.t2) >= 125 * Ms

(* the slot of the audio that the time t falls in *)
SlotAt(t) == Slot(wave, t)

(* C29: each sub-score is 0 when either boundary window holds fewer than
   1/8 second of samples; otherwise chroma similarity is 0 when either
   chroma vector has zero norm, energy match is 1.0 when both RMS values
   are 0, and centroid match is 1.0 when both centroids are 0; every
   sub-score is a number in [0, 1]; and classify_segments divides by 1.0
   when the maximum segment energy is 0 *)
C29_ZeroDenominatorFallbacks ==
    /\ (pc = "return" /\ call.fn # "classify_segments")
          => /\ ret \in 0..One
             /\ ~BothWindowsLongEnough => ret = 0
    /\ (/\ SubScoreReturned("_chroma_similarity")
        /\ BothWindowsLongEnough
        /\ \E t \in {call.t1, call.t2} : wave.chroma[SlotAt(t)] = ZeroChroma)
          => ret = 0
    /\ (/\ SubScoreReturned("_energy_match")
        /\ BothWindowsLongEnough
        /\ wave.rms[SlotAt(call.t1)] = 0
        /\ wave.rms[SlotAt(call.t2)] = 0)
          => ret = One
    /\ (/\ SubScoreReturned("_spectral_match")
        /\ BothWindowsLongEnough
        /\ wave.centroid[SlotAt(call.t1)] = 0
        /\ wave.centroid[SlotAt(call.t2)] = 0)
          => ret = One
    /\ (/\ pc = "return"
        /\ call.fn = "classify_segments"
        /\ \A k \in 1..NSlots : wave.rms[k] = 0)
          => \A k \in DOMAIN ret : ret[k].energy_profile = 0

(* the energy match of two silent windows of full length *)
C29_Witness ==
    /\ SubScoreReturned("_energy_match")
    /\ BothWindowsLongEnough
    /\ call.t1 # call.t2
    /\ wave.rms[SlotAt(call.t1)] = 0 /\ wave.rms[SlotAt(call.t2)] = 0
    /\ ret = One

----------------------------------------------------------------------------
(* analyze_audio, any request: the order of the dependent stages *)

(* the features whose block needs the tempo or the structure *)
DependentFeatures == {"tempo", "structure", "loop_points", "arrangement", "auto_cues", "all"}

(* the blocks that have run when the run is at pc *)
BlocksDone ==
    CASE pc = "tempo" -> {}
      [] pc = "basic" -> {"tempo"}
      [] pc = "structure" -> {"tempo"}
      [] pc = "loop_points" -> {"tempo", "structure"}
      [] pc = "arrangement" -> {"tempo", "structure", "loop_points"}
      [] pc = "auto_cues" -> {"tempo", "structure", "loop_points", "arrangement"}
      [] OTHER -> {"tempo", "structure", "loop_points", "arrangement", "auto_cues"}

(* C30: for every request no assertion fails; the structure is never there
   without the tempo; once a requested block has run the data it depends on
   is there (the tempo for the tempo block, the tempo and the structure for
   the structure, loop point, arrangement and auto cue blocks), and so is
   its result; and a request with none of tempo, structure, loop_points,
   arrangement, auto_cues and all computes neither tempo nor structure *)
C30_DependenciesBeforeUse ==
    /\ pc # "AssertionError"
    /\ structure_data # <<>> => tempo_data # <<>>
    /\ \A f \in BlocksDone :
           Want(f) => /\ tempo_data # <<>>
                      /\ f # "tempo" => structure_data # <<>>
    /\ results.loop_points # <<>> \/ results.arrangement_markers # <<>>
          \/ results.auto_cues # <<>> \/ results.structure # <<>>
             => structure_data # <<>>
    /\ pc = "done"
          => /\ Want("loop_points") => results.loop_points # <<>>
             /\ Want("arrangement") => results.arrangement_markers # <<>>
             /\ Want("auto_cues") => results.auto_cues # <<>>
             /\ Want("structure") => results.structure # <<>>
             /\ Want("tempo") => results.tempo # <<>>
    /\ features \cap DependentFeatures = {}
          => /\ tempo_calls = 0 /\ structure_calls = 0
             /\ tempo_data = <<>> /\ structure_data = <<>>

(* a request for the loop points alone: the loop point block computed the
   tempo, then the structure, then the loop points *)
C30_Witness ==
    /\ pc = "done"
    /\ features = {"loop_points"}
    /\ tempo_calls = 1 /\ structure_calls = 1
    /\ results.loop_points # <<>>
    /\ results.tempo = <<>>

====
